---- MODULE Spec2Model ----
(***************************************************************************)
(* Lyrics acquisition and cache core of Spotify-Lyrics-Translator.         *)
(*                                                                         *)
(*   - LyricsService.get_lyrics (src/src/lyrics_service.py): the provider  *)
(*     fallback loop over a 2-worker thread pool with per-attempt timeouts *)
(*   - the three providers' get_lyrics (src/src/lyrics_providers.py) and   *)
(*     the payload model (src/src/lyrics_models.py)                        *)
(*   - LyricsManager (src/src/lyrics_manager.py): translate_lyrics and the *)
(*     insertion-ordered, size-bounded cache                               *)
(*                                                                         *)
(* Specifications:                                                         *)
(*   Spec         get_lyrics with the three providers app.py configures    *)
(*   ServiceSpec  get_lyrics with providers that may answer anything the   *)
(*                BaseLyricsProvider protocol allows                       *)
(*   CacheSpec    the LyricsManager operations on the cache                *)
(***************************************************************************)
EXTENDS Integers, Sequences, FiniteSets, TLC

VARIABLES
    pc,        \* get_lyrics: "idle" | "wait" (in fut.result) | "sleep" | "done" | "raised"
    prov,      \* index into Providers of the provider being tried
    att,       \* i of `for i in range(attempts)`
    pool,      \* work items of self._executor, in submission order
    result,    \* the value get_lyrics returned (None until then)
    hist,      \* history: the attempts submitted by the current call
    lateOut,   \* history: outcome of the last abandoned call that finished
    excSeen,   \* history: fut.result re-raised a provider exception in this call
    inTime,    \* history: first source answer with lines received before the timeout
    calls,     \* number of get_lyrics calls started
    cache,     \* LyricsManager.cache: insertion-ordered sequence of [id, entry]
    disk,      \* contents of the cache file as last written by save_cache
    fs,        \* what the file system does with the cache file: "ok" | "noaccess" | "full"
    insOrder,  \* history: the ids held, in the order they were inserted as new keys
    lastOp,    \* history: the last LyricsManager operation, its inputs and its result
    lastRead,  \* history: the id of the entry held that a read last found (0: none)
    lastTr,    \* history: id -> what translate_lyrics last returned for the entry held
    current_lyrics,  \* app.py: the lines on display, each with its translated text
    lastMerge, \* history: the last merge_translations_into_current, its inputs and result
    lastCall,  \* history: the last call of a provider's or client's function, with its result
    playing,   \* the id of the track Spotify plays
    current_song_id,  \* app.py: the id update_display saw last (0: None)
    uipc,      \* where the UI thread is: idle in the event loop, or inside update_lyrics
    ul,        \* the last update_lyrics call: its song_id, whether refresh_lyrics made it
    status,    \* status_label's text
    threads,   \* the background threads running translate_lyrics
    after,     \* callbacks scheduled with root.after and not yet run
    flow,      \* history: the phases of the transition the UI thread started last
    doneFlow,  \* history: the phases of the transition a thread's callback ended last
    lastUi,    \* history: the thread that last changed UI-visible state
    cacheWriter   \* history: the thread that last changed the cache or wrote its file

svcVars == <<pc, prov, att, pool, result, hist, lateOut, excSeen, inTime, calls>>
mgrVars == <<cache, disk, fs, insOrder, lastOp, lastRead, lastTr>>
uiVars == <<playing, current_song_id, uipc, ul, status, threads, after,
            flow, doneFlow, lastUi, cacheWriter>>
appVars == <<current_lyrics, lastMerge, lastCall, uiVars>>
vars == <<pc, prov, att, pool, result, hist, lateOut, excSeen, inTime, calls,
          cache, disk, fs, insOrder, lastOp, lastRead, lastTr,
          current_lyrics, lastMerge, lastCall, playing, current_song_id, uipc, ul, status,
          threads, after, flow, doneFlow, lastUi, cacheWriter>>

-----------------------------------------------------------------------------
(* Bounds of the model *)

MaxCalls == 2          \* get_lyrics calls per behaviour
MaxCacheSize == 2      \* stands for max_cache_size (1000 by default)

-----------------------------------------------------------------------------
(* Python values *)

NoneV == [kind |-> "None"]
Raise(e) == [kind |-> "raise", exc |-> e]

\* A startTimeMs value is a Python int or a decimal string.
IntV(n) == [typ |-> "int", v |-> n]
StrV(ds) == [typ |-> "str", ds |-> ds]

RECURSIVE DigitsVal(_)
DigitsVal(ds) ==
    IF ds = <<>> THEN 0
    ELSE 10 * DigitsVal(SubSeq(ds, 1, Len(ds) - 1)) + ds[Len(ds)]

\* int(x) raises ValueError on the empty string
PyIntOk(x) == x.typ = "int" \/ Len(x.ds) > 0

PyInt(x) == IF x.typ = "int" THEN x.v ELSE DigitsVal(x.ds)

-----------------------------------------------------------------------------
(* lyrics_models.py *)

\* LyricsLine.to_dict
LineToDict(line) == [startTimeMs |-> IntV(line.start_time_ms), words |-> line.words]

\* The fields the LyricsPayload dataclass declares; its generated __init__
\* accepts exactly these keywords.
PayloadFields == {"language", "lines", "synced"}

\* LyricsPayload(**kwargs): an unexpected keyword raises TypeError
LyricsPayload(kwargs) ==
    IF DOMAIN kwargs = PayloadFields
    THEN [kind |-> "payload", language |-> kwargs.language,
          lines |-> kwargs.lines, synced |-> kwargs.synced]
    ELSE Raise("TypeError")

\* LyricsPayload.to_api_dict
ToApiDict(p) ==
    [lyrics |-> [language |-> p.language,
                 lines |-> [i \in DOMAIN p.lines |-> LineToDict(p.lines[i])],
                 synced |-> p.synced]]

-----------------------------------------------------------------------------
(* lyrics_providers.py *)

RECURSIVE SyricsParseLines(_)
\* the loop over lines_raw: an item whose startTimeMs int() rejects is skipped
SyricsParseLines(raw) ==
    IF raw = <<>> THEN <<>>
    ELSE LET item == Head(raw)
             rest == SyricsParseLines(Tail(raw))
         IN IF PyIntOk(item.startTimeMs)
            THEN <<[start_time_ms |-> PyInt(item.startTimeMs), words |-> item.words]>> \o rest
            ELSE rest

\* SyricsLyricsProvider.get_lyrics; resp is what the syrics client does
SyricsGetLyrics(id, resp) ==
    IF id = "" THEN NoneV
    ELSE IF resp.kind = "raise" THEN NoneV
    ELSE IF resp.kind = "nodata" THEN NoneV
    ELSE LET lines == SyricsParseLines(resp.lines)
         IN IF lines = <<>> THEN NoneV
            ELSE LyricsPayload([language |-> resp.language, lines |-> lines,
                                synced |-> TRUE, source |-> "Spotify"])

\* list.insert of x after the lines that do not start later
InsertByStart(x, sorted) ==
    LET k == Cardinality({i \in DOMAIN sorted : sorted[i].start_time_ms <= x.start_time_ms})
    IN SubSeq(sorted, 1, k) \o <<x>> \o SubSeq(sorted, k + 1, Len(sorted))

RECURSIVE ParseLrc(_)
\* LRCLibLyricsProvider._parse_lrc on the tagged lines of the text, in the
\* text's order: lines.sort(key=lambda x: x.start_time_ms), a stable sort
ParseLrc(tagged) ==
    IF tagged = <<>> THEN <<>>
    ELSE InsertByStart(tagged[Len(tagged)], ParseLrc(SubSeq(tagged, 1, Len(tagged) - 1)))

\* LRCLibLyricsProvider.get_lyrics; resp.synced are the tagged lines of
\* syncedLyrics and resp.plain the lines _plain_to_synthetic obtains
LRCLibGetLyrics(resp) ==
    IF resp.kind # "ok" THEN NoneV
    ELSE IF resp.synced # <<>>
    THEN LyricsPayload([language |-> "unknown", lines |-> ParseLrc(resp.synced),
                        synced |-> TRUE, source |-> "LRCLib"])
    ELSE IF resp.plain # <<>>
    THEN LyricsPayload([language |-> "unknown", lines |-> resp.plain,
                        synced |-> FALSE, source |-> "LRCLib"])
    ELSE NoneV

\* UtaNetLyricsProvider.get_lyrics; resp.selected are the lines
\* _plain_to_synthetic obtains from the selected candidate's lyrics
UtaNetGetLyrics(resp) ==
    IF resp.kind # "ok" THEN NoneV
    ELSE IF resp.selected # <<>>
    THEN LyricsPayload([language |-> "ja", lines |-> resp.selected,
                        synced |-> FALSE, source |-> "Uta-Net"])
    ELSE NoneV

\* Mutant of Providers: the community database is tried before the first-party API
ProvidersSwapped == <<"LRCLibLyricsProvider", "SyricsLyricsProvider", "UtaNetLyricsProvider">>

\* init_spotify_client: the provider list, by class name, in priority order
Providers == <<"SyricsLyricsProvider", "LRCLibLyricsProvider", "UtaNetLyricsProvider">>

\* provider.get_lyrics(track, spotify_track_id), dispatched on the class
ProviderGetLyrics(name, id, resp) ==
    CASE name = "SyricsLyricsProvider" -> SyricsGetLyrics(id, resp)
      [] name = "LRCLibLyricsProvider" -> LRCLibGetLyrics(resp)
      [] name = "UtaNetLyricsProvider" -> UtaNetGetLyrics(resp)

\* What the sources can answer
L1 == <<[start_time_ms |-> 0, words |-> "a"], [start_time_ms |-> 12, words |-> "b"]>>
L2 == <<[start_time_ms |-> 0, words |-> "c"]>>
\* a synced text whose lines are not in the order of their tags
LrcText == <<[start_time_ms |-> 12, words |-> "b"], [start_time_ms |-> 0, words |-> "a"]>>

SyricsResponses ==
    { [kind |-> "raise"], [kind |-> "nodata"],
      [kind |-> "data", language |-> "ja",
       lines |-> <<[startTimeMs |-> StrV(<<>>), words |-> "a"]>>],
      [kind |-> "data", language |-> "ja",
       lines |-> <<[startTimeMs |-> StrV(<<0>>), words |-> "a"],
                   [startTimeMs |-> StrV(<<1, 2>>), words |-> "b"]>>],
      [kind |-> "data", language |-> "ja",
       lines |-> <<[startTimeMs |-> StrV(<<1, 2>>), words |-> "b"],
                   [startTimeMs |-> StrV(<<0>>), words |-> "a"]>>] }

LRCLibResponses ==
    { [kind |-> "fail"],
      [kind |-> "ok", synced |-> <<>>, plain |-> <<>>],
      [kind |-> "ok", synced |-> LrcText, plain |-> L2],
      [kind |-> "ok", synced |-> <<>>, plain |-> L2] }

UtaNetResponses ==
    { [kind |-> "fail"],
      [kind |-> "ok", selected |-> <<>>],
      [kind |-> "ok", selected |-> L2] }

SourceResponses(name) ==
    CASE name = "SyricsLyricsProvider" -> SyricsResponses
      [] name = "LRCLibLyricsProvider" -> LRCLibResponses
      [] name = "UtaNetLyricsProvider" -> UtaNetResponses

\* What a BaseLyricsProvider.get_lyrics may do: return None, return a payload
\* (with or without lines), or raise
ProtocolResults ==
    { NoneV, Raise("RuntimeError"),
      LyricsPayload([language |-> "unknown", lines |-> <<>>, synced |-> TRUE]),
      LyricsPayload([language |-> "ja", lines |-> L1, synced |-> TRUE]),
      LyricsPayload([language |-> "ja", lines |-> L2, synced |-> FALSE]) }

-----------------------------------------------------------------------------
(* lyrics_service.py: LyricsService *)

\* ThreadPoolExecutor(max_workers=2)
PoolWorkers == 2

\* Mutant of Delays: every retry waits 150 ms
DelaysEqual == <<150, 150>>

\* delays = [0.0, 0.15], in milliseconds
Delays == <<0, 150>>

\* 'UtaNet' in provider_name
IsUtaNet(name) == name \in {"UtaNetLyricsProvider"}

\* Mutant of Attempts: the UtaNet special case is missing
AttemptsNoSpecialCase(name) == 1 + Len(Delays)

\* attempts = 1 + len(delays); UtaNet gets 1
Attempts(name) == IF IsUtaNet(name) THEN 1 ELSE 1 + Len(Delays)

\* Mutant of FutResult: only TimeoutError is caught
FutResultNoCatch(out, timedOut) ==
    IF timedOut THEN [payload |-> NoneV, raised |-> FALSE]
    ELSE IF out.kind = "raise" THEN [payload |-> NoneV, raised |-> TRUE]
    ELSE [payload |-> out, raised |-> FALSE]

\* try: fut.result(timeout) / except TimeoutError / except Exception:
\* the payload the loop goes on with, and whether an exception leaves get_lyrics
FutResult(out, timedOut) ==
    IF timedOut THEN [payload |-> NoneV, raised |-> FALSE]
    ELSE IF out.kind = "raise" THEN [payload |-> NoneV, raised |-> FALSE]
    ELSE [payload |-> out, raised |-> FALSE]

\* Mutant of Acceptable: a payload needs more than one line
AcceptableTwoLines(payload) == payload.kind = "payload" /\ Len(payload.lines) > 1

\* if payload and payload.lines
Acceptable(payload) == payload.kind = "payload" /\ Len(payload.lines) > 0

\* Mutant of AbandonedDone: a late payload replaces what was returned
AbandonedDoneMerged(res, out) ==
    IF out.kind = "payload" /\ Len(out.lines) > 0 THEN ToApiDict(out) ELSE res

\* A future whose fut.result timed out is not looked at again: when its call
\* ends, the value get_lyrics returned stays what it was
AbandonedDone(res, out) == res

\* the work item get_lyrics is waiting for
IsCurrent(t) == ~t.abandoned
CurrentIdx == CHOOSE i \in DOMAIN pool : IsCurrent(pool[i])
Running == {i \in DOMAIN pool : pool[i].st = "running"}
Queued == {i \in DOMAIN pool : pool[i].st = "queued"}

Min(S) == CHOOSE x \in S : \A y \in S : x <= y

Remove(seq, i) == SubSeq(seq, 1, i - 1) \o SubSeq(seq, i + 1, Len(seq))

NewTask(p, id) ==
    [prov |-> p, id |-> id, st |-> "queued", out |-> NoneV,
     src |-> [kind |-> "pending"], abandoned |-> FALSE]

NewAttempt(p, a, id) ==
    [prov |-> p, att |-> a, id |-> id, seen |-> "pending", usable |-> FALSE,
     slept |-> -1]

\* history: the source answered with at least one parsable line
SourceHasLines(name, src) ==
    CASE name = "SyricsLyricsProvider" ->
             src.kind = "data" /\ \E i \in DOMAIN src.lines : PyIntOk(src.lines[i].startTimeMs)
      [] name = "LRCLibLyricsProvider" ->
             src.kind = "ok" /\ (src.synced # <<>> \/ src.plain # <<>>)
      [] name = "UtaNetLyricsProvider" ->
             src.kind = "ok" /\ src.selected # <<>>

\* the `lines` a provider's get_lyrics builds from the source's answer and
\* hands to LyricsPayload
BuiltLines(name, src) ==
    CASE name = "SyricsLyricsProvider" ->
             IF src.kind = "data" THEN SyricsParseLines(src.lines) ELSE <<>>
      [] name = "LRCLibLyricsProvider" ->
             IF src.kind # "ok" THEN <<>>
             ELSE IF src.synced # <<>> THEN ParseLrc(src.synced) ELSE src.plain
      [] name = "UtaNetLyricsProvider" ->
             IF src.kind = "ok" THEN src.selected ELSE <<>>

\* history: a payload with at least one line
UsablePayload(out) == out.kind = "payload" /\ out.lines # <<>>

\* fut = self._executor.submit(provider.get_lyrics, track, spotify_track_id)
\* for attempt a of provider p; q and h are the pool and the history before
Submit(q, h, p, a, id) ==
    /\ pool' = Append(q, NewTask(p, id))
    /\ hist' = Append(h, NewAttempt(p, a, id))
    /\ prov' = p
    /\ att' = a
    /\ pc' = "wait"

\* The loops after an attempt (and its sleep) is over: the next attempt, the
\* next provider, or return None
Advance(q, h) ==
    IF att + 1 < Attempts(Providers[prov])
    THEN Submit(q, h, prov, att + 1, h[1].id) /\ UNCHANGED result
    ELSE IF prov < Len(Providers)
    THEN Submit(q, h, prov + 1, 0, h[1].id) /\ UNCHANGED result
    ELSE /\ pc' = "done"
         /\ result' = NoneV
         /\ pool' = q
         /\ hist' = h
         /\ UNCHANGED <<prov, att>>

\* if i < len(delays): time.sleep(delays[i])
AfterFail(q, h) ==
    IF att < Len(Delays)
    THEN /\ pc' = "sleep"
         /\ pool' = q
         /\ hist' = [h EXCEPT ![Len(h)].slept = Delays[att + 1]]
         /\ UNCHANGED <<prov, att, result>>
    ELSE Advance(q, h)

\* get_lyrics after fut.result; r is what FutResult gave
Handle(r, q, h) ==
    IF r.raised
    THEN /\ pc' = "raised"
         /\ pool' = q
         /\ hist' = h
         /\ UNCHANGED <<prov, att, result>>
    ELSE IF Acceptable(r.payload)
    THEN /\ pc' = "done"
         /\ result' = ToApiDict(r.payload)
         /\ pool' = q
         /\ hist' = h
         /\ UNCHANGED <<prov, att>>
    ELSE AfterFail(IF pool[CurrentIdx].st = "done" THEN Remove(q, CurrentIdx) ELSE q, h)

\* spotify_track_id: the playing item's id, None for an item without one
TrackIdArgs == {"", "t1"}

\* get_lyrics is called: the first provider's first attempt is submitted
GetLyrics ==
    /\ pc \in {"idle", "done"}
    /\ calls < MaxCalls
    /\ calls' = calls + 1
    /\ \E id \in TrackIdArgs :
           Submit(SelectSeq(pool, LAMBDA t : t.st # "done"), <<>>, 1, 0, id)
    /\ result' = NoneV
    /\ lateOut' = NoneV
    /\ excSeen' = FALSE
    /\ inTime' = [prov |-> 0]
    /\ UNCHANGED <<mgrVars, appVars>>

\* A pool worker takes the oldest queued work item
WorkerStart ==
    /\ Queued # {}
    /\ Cardinality(Running) < PoolWorkers
    /\ pool' = [pool EXCEPT ![Min(Queued)].st = "running"]
    /\ UNCHANGED <<pc, prov, att, result, hist, lateOut, excSeen, inTime, calls>>
    /\ UNCHANGED <<mgrVars, appVars>>

\* The provider call of work item i ends with outcome out; src is the
\* source's answer it worked on
Finish(i, out, src) ==
    /\ IF pool[i].abandoned
       THEN /\ pool' = Remove(pool, i)
            /\ lateOut' = out
            /\ result' = AbandonedDone(result, out)
       ELSE /\ pool' = [pool EXCEPT ![i].st = "done", ![i].out = out, ![i].src = src]
            /\ UNCHANGED <<lateOut, result>>
    /\ UNCHANGED <<pc, prov, att, hist, excSeen, inTime, calls>>
    /\ UNCHANGED <<mgrVars, appVars>>

\* A configured provider's call ends
WorkerFinish ==
    \E i \in Running :
        \E resp \in SourceResponses(Providers[pool[i].prov]) :
            Finish(i, ProviderGetLyrics(Providers[pool[i].prov], pool[i].id, resp), resp)

\* The call of a provider that is only known to follow BaseLyricsProvider ends
WorkerFinishAny ==
    \E i \in Running :
        \E out \in ProtocolResults : Finish(i, out, [kind |-> "protocol"])

\* fut.result(timeout=timeout) returns or re-raises: the call ended in time
Receive ==
    /\ pc = "wait"
    /\ pool[CurrentIdx].st = "done"
    /\ LET t == pool[CurrentIdx]
       IN /\ excSeen' = (excSeen \/ t.out.kind = "raise")
          /\ inTime' = IF inTime.prov = 0 /\ t.src.kind # "protocol"
                           /\ SourceHasLines(Providers[t.prov], t.src)
                        THEN [prov |-> t.prov, src |-> t.src]
                        ELSE inTime
          /\ Handle(FutResult(t.out, FALSE), pool,
                    [hist EXCEPT ![Len(hist)].seen = "result",
                                 ![Len(hist)].usable = UsablePayload(t.out)])
    /\ UNCHANGED <<lateOut, calls>>
    /\ UNCHANGED <<mgrVars, appVars>>

\* fut.result(timeout=timeout) raises TimeoutError: the future is abandoned,
\* its call goes on (or still waits for a worker)
Timeout ==
    /\ pc = "wait"
    /\ pool[CurrentIdx].st # "done"
    /\ Handle(FutResult(NoneV, TRUE),
              [pool EXCEPT ![CurrentIdx].abandoned = TRUE],
              [hist EXCEPT ![Len(hist)].seen = "timeout"])
    /\ UNCHANGED <<lateOut, excSeen, inTime, calls>>
    /\ UNCHANGED <<mgrVars, appVars>>

\* time.sleep(delays[i]) returns
Wake ==
    /\ pc = "sleep"
    /\ Advance(pool, hist)
    /\ UNCHANGED <<lateOut, excSeen, inTime, calls>>
    /\ UNCHANGED <<mgrVars, appVars>>

InitService ==
    /\ pc = "idle"
    /\ prov = 1
    /\ att = 0
    /\ pool = <<>>
    /\ result = NoneV
    /\ hist = <<>>
    /\ lateOut = NoneV
    /\ excSeen = FALSE
    /\ inTime = [prov |-> 0]
    /\ calls = 0

-----------------------------------------------------------------------------
(* translation_clients.py *)

\* What the translation backend makes of a line
Tr(w) ==
    CASE w = "a" -> "A"
      [] w = "b" -> "B"
      [] w = "c" -> "C"
      [] OTHER -> "Tt"

\* Mutant of GoogleTranslateLines: the loop without its try/except
GoogleTranslateLinesNoCatch(lines, run) ==
    IF ~run.ok THEN Raise("LanguageNotSupportedException")
    ELSE IF run.err \cap DOMAIN lines # {} THEN Raise("RequestError")
    ELSE [kind |-> "ok",
          raw |-> [i \in DOMAIN lines |-> Tr(lines[i])],
          lines |-> [i \in DOMAIN lines |-> Tr(lines[i])]]

\* GoogleTranslateClient.translate_lines: run.ok is whether GoogleTranslator()
\* could be built, run.err the positions where translator.translate raises
GoogleTranslateLines(lines, run) ==
    IF ~run.ok THEN Raise("LanguageNotSupportedException")
    ELSE [kind |-> "ok",
          raw |-> [i \in DOMAIN lines |-> IF i \in run.err THEN lines[i] ELSE Tr(lines[i])],
          lines |-> [i \in DOMAIN lines |-> IF i \in run.err THEN lines[i] ELSE Tr(lines[i])]]

\* Mutant of NormalizeLines: the cleaned lines are returned as they are
NormalizeLinesAsIs(cleaned, expected_count, original_lines) == cleaned

\* OpenRouterClient._normalize_lines, on the cleaned lines of the output
NormalizeLines(cleaned, expected_count, original_lines) ==
    IF Len(cleaned) = expected_count THEN cleaned
    ELSE IF Len(cleaned) < expected_count
    THEN cleaned \o SubSeq(original_lines, Len(cleaned) + 1, Len(original_lines))
    ELSE SubSeq(cleaned, 1, expected_count)

\* The lines the LLM answers with: the translations, delta lines more or
\* fewer; "".split("\n") is one empty line
LLMContent(lines, delta) ==
    IF Len(lines) + delta <= 0 THEN <<"">>
    ELSE [i \in 1..(Len(lines) + delta) |-> IF i <= Len(lines) THEN Tr(lines[i]) ELSE "x"]

\* OpenRouterClient.translate_lines: run.key is self.api_key, run.http whether
\* the request got a well-formed answer
OpenRouterTranslateLines(lines, run) ==
    IF run.key = "" THEN Raise("ValueError")
    ELSE IF ~run.http THEN Raise("RuntimeError")
    ELSE [kind |-> "ok",
          raw |-> LLMContent(lines, run.delta),
          lines |-> NormalizeLines(LLMContent(lines, run.delta), Len(lines), lines)]

\* self.translation_client.translate_lines(lines, None, target_language)
TranslateLines(lines, run) ==
    IF run.client = "google" THEN GoogleTranslateLines(lines, run)
    ELSE OpenRouterTranslateLines(lines, run)

\* get_source_name; the LLM model is "openai/gpt-4"
SourceName(run) == IF run.client = "google" THEN "Google Translate" ELSE "gpt-4"

\* The active client and what its backend does during one translate_lyrics:
\* title is the run of the separate translate_lines call for the song title
ClientRuns ==
    { [client |-> "google", ok |-> TRUE, err |-> {},
       title |-> [client |-> "google", ok |-> TRUE, err |-> {}]],
      [client |-> "google", ok |-> TRUE, err |-> {1},
       title |-> [client |-> "google", ok |-> TRUE, err |-> {1}]],
      [client |-> "google", ok |-> FALSE, err |-> {},
       title |-> [client |-> "google", ok |-> FALSE, err |-> {}]],
      [client |-> "openrouter", key |-> "", http |-> FALSE, delta |-> 0,
       title |-> [client |-> "openrouter", key |-> "", http |-> FALSE, delta |-> 0]],
      [client |-> "openrouter", key |-> "k", http |-> TRUE, delta |-> -1,
       title |-> [client |-> "openrouter", key |-> "k", http |-> TRUE, delta |-> 0]],
      [client |-> "openrouter", key |-> "k", http |-> TRUE, delta |-> 1,
       title |-> [client |-> "openrouter", key |-> "k", http |-> FALSE, delta |-> 0]] }

-----------------------------------------------------------------------------
(* lyrics_manager.py: LyricsManager *)

TrackIds == 1..(MaxCacheSize + 1)

\* an optional string: None or a str
Str(x) == [kind |-> "str", s |-> x]

\* self.cache is a dict: a sequence of [id, val] in insertion order
Keys(c) == [i \in DOMAIN c |-> c[i].id]
KeySet(c) == {c[i].id : i \in DOMAIN c}
IndexOf(c, id) == CHOOSE i \in DOMAIN c : c[i].id = id

\* Mutant of DictGet: the lookup ignores the key
DictGetFirst(c, id) == IF id \in KeySet(c) THEN c[1].val ELSE NoneV

\* self.cache.get(song_id)
DictGet(c, id) == IF id \in KeySet(c) THEN c[IndexOf(c, id)].val ELSE NoneV

\* self.cache[song_id] = v: an existing key keeps its place
DictSet(c, id, v) ==
    IF id \in KeySet(c) THEN [c EXCEPT ![IndexOf(c, id)].val = v]
    ELSE Append(c, [id |-> id, val |-> v])

\* Mutant of DictDel: the oldest key is deleted
DictDelFirst(c, id) == Tail(c)

\* del self.cache[song_id]
DictDel(c, id) == Remove(c, IndexOf(c, id))

\* Mutant of DictPopFirst: popitem() removes the newest key
DictPopLast(c) == SubSeq(c, 1, Len(c) - 1)

\* self.cache.pop(next(iter(self.cache)))
DictPopFirst(c) == Tail(c)

\* `if cached:` for a cache value: None and the empty list are false
Truthy(v) == v # NoneV /\ (v.shape = "list" => v.lyrics # <<>>)

RECURSIVE InsertByTimeBefore(_, _)
\* Mutant of InsertByTime: x goes before elements with an equal key
InsertByTimeBefore(x, sorted) ==
    IF sorted = <<>> THEN <<x>>
    ELSE IF PyInt(Head(sorted).startTimeMs) < PyInt(x.startTimeMs)
    THEN <<Head(sorted)>> \o InsertByTimeBefore(x, Tail(sorted))
    ELSE <<x>> \o sorted

RECURSIVE InsertByTime(_, _)
\* x goes after every element whose key is not greater: the sort is stable
InsertByTime(x, sorted) ==
    IF sorted = <<>> THEN <<x>>
    ELSE IF PyInt(Head(sorted).startTimeMs) <= PyInt(x.startTimeMs)
    THEN <<Head(sorted)>> \o InsertByTime(x, Tail(sorted))
    ELSE <<x>> \o sorted

RECURSIVE SortByTime(_)
\* sorted(lyrics, key=lambda x: int(x['startTimeMs'])) and list.sort with it
SortByTime(lyrics) ==
    IF lyrics = <<>> THEN <<>>
    ELSE InsertByTime(lyrics[Len(lyrics)], SortByTime(SubSeq(lyrics, 1, Len(lyrics) - 1)))

\* Mutant of TrySortByTime: the list is returned as stored
TrySortByTimeNever(lyrics) == lyrics

\* lyrics.sort(key=lambda x: int(x['startTimeMs'])) inside try/except: when
\* int() raises for a line, the list is left as it was
TrySortByTime(lyrics) ==
    IF \A i \in DOMAIN lyrics : PyIntOk(lyrics[i].startTimeMs)
    THEN SortByTime(lyrics)
    ELSE lyrics

\* Mutant of ZipMerge: the last pair is dropped
ZipMergeShort(ordered, translated_lines) ==
    [i \in 1..(Len(ordered) - 1) |->
        [startTimeMs |-> ordered[i].startTimeMs, words |-> ordered[i].words,
         translated |-> translated_lines[i]]]

\* for src, translated_text in zip(ordered, translated_lines): append the dict
ZipMerge(ordered, translated_lines) ==
    [i \in 1..(IF Len(ordered) <= Len(translated_lines)
               THEN Len(ordered) ELSE Len(translated_lines)) |->
        [startTimeMs |-> ordered[i].startTimeMs, words |-> ordered[i].words,
         translated |-> translated_lines[i]]]

\* translate_song_title, for a non-blank title
TranslateSongTitle(song_title, run) ==
    LET r == TranslateLines(<<song_title>>, run)
    IN IF r.kind = "ok" /\ Len(r.lines) > 0 THEN r.lines[1] ELSE song_title

\* Mutant of CachedEntry: a bare list is handed back with the fields of an
\* entry that was never synced
CachedEntryUnsynced(cached) ==
    [lyrics |-> TrySortByTime(cached.lyrics), lyrics_source |-> "Unknown",
     translation_source |-> "Unknown", original_title |-> NoneV,
     translated_title |-> NoneV, synced |-> FALSE]

\* the dict get_cached_lyrics returns for a truthy cache value
CachedEntry(cached) ==
    IF cached.shape = "list"
    THEN [lyrics |-> TrySortByTime(cached.lyrics), lyrics_source |-> "Unknown",
          translation_source |-> "Unknown", original_title |-> NoneV,
          translated_title |-> NoneV, synced |-> TRUE]
    ELSE [lyrics |-> TrySortByTime(cached.lyrics), lyrics_source |-> cached.lyrics_source,
          translation_source |-> cached.translation_source,
          original_title |-> IF cached.title.kind = "set" THEN Str(cached.title.original) ELSE NoneV,
          translated_title |-> IF cached.title.kind = "set" THEN Str(cached.title.translated) ELSE NoneV,
          synced |-> cached.synced]

\* a cache file pickle.load cannot read: truncated or otherwise not a pickle
Corrupt == <<[id |-> 0, val |-> [shape |-> "garbage"]]>>

\* _load_cache: the mapping in the file, {} when open or pickle.load raises;
\* a missing file and a file holding {} are both <<>>
LoadCache(file, state) ==
    IF state = "noaccess" \/ file = Corrupt THEN <<>> ELSE file

\* Mutant of SaveCacheRaises: save_cache without its except clause
SaveCacheRaisesNoCatch(state) == state # "ok"

\* save_cache: does an exception leave it? `except Exception` swallows what
\* open and pickle.dump raise
SaveCacheRaises(state) == FALSE

\* save_cache: pickle.dump of the mapping into the file opened with 'wb'
SaveCache(c) ==
    /\ disk' = CASE fs = "ok" -> c
                 [] fs = "noaccess" -> disk      \* open raises, the file is as it was
                 [] fs = "full" -> Corrupt       \* open truncated the file, pickle.dump raises
    /\ fs' = fs

\* Lists of lines as update_lyrics passes them on: startTimeMs is an int there
LineDicts == {[startTimeMs |-> IntV(0), words |-> "a"],
              [startTimeMs |-> IntV(1), words |-> "a"],
              [startTimeMs |-> IntV(1), words |-> "b"]}
MaxLines == 3           \* lines per list handed to translate_lyrics
AllLyricsData == UNION {[1..n -> LineDicts] : n \in 1..MaxLines}

\* The lines of each track in CacheSpec
LyricsData(id) ==
    CASE id = 1 -> <<[startTimeMs |-> IntV(1), words |-> "b"],
                     [startTimeMs |-> IntV(0), words |-> "a"]>>
      [] id = 2 -> <<[startTimeMs |-> IntV(1), words |-> "a"],
                     [startTimeMs |-> IntV(1), words |-> "b"],
                     [startTimeMs |-> IntV(1), words |-> "a"]>>
      [] OTHER -> <<[startTimeMs |-> IntV(1), words |-> "b"]>>

LyricsSynced(id) == id # 2

\* The client runs of each track in CacheSpec: one that translates every
\* line, one that does not
RunsFor(id) ==
    {run \in ClientRuns :
        \/ run.client = "google" /\ run.ok /\ run.err = {}
        \/ id = 1 /\ run.client = "openrouter" /\ run.key = ""
        \/ id = 2 /\ run.client = "openrouter" /\ run.key # "" /\ run.delta < 0
        \/ id > 2 /\ run.client = "google" /\ run.ok /\ run.err # {}}

\* history bookkeeping after an operation leaves the cache as c: ids no
\* longer held are forgotten, ids newly held are the latest insertions
Track(c, op, id, ret) ==
    /\ insOrder' = SelectSeq(insOrder, LAMBDA i : i \in KeySet(c))
                     \o SelectSeq(Keys(c), LAMBDA i : i \notin KeySet(cache))
    /\ lastRead' = IF lastRead \in KeySet(c) THEN lastRead ELSE 0
    /\ lastTr' = [i \in TrackIds |->
                     IF i \notin KeySet(c) THEN NoneV
                     ELSE IF op = "translate_lyrics" /\ i = id THEN [kind |-> "list", lines |-> ret]
                     ELSE IF i \in KeySet(cache) THEN lastTr[i]
                     ELSE NoneV]

\* Mutant of TryTranslateLines: the client's exception is not caught
TryTranslateLinesNoCatch(out, original_lines) ==
    IF out.kind = "raise" THEN [lines |-> <<>>, raised |-> TRUE]
    ELSE [lines |-> out.lines, raised |-> FALSE]

\* try: translated_lines = client.translate_lines(...) / except Exception:
\* translated_lines = original_lines; raised is whether an exception leaves
\* translate_lyrics
TryTranslateLines(out, original_lines) ==
    IF out.kind = "raise" THEN [lines |-> original_lines, raised |-> FALSE]
    ELSE [lines |-> out.lines, raised |-> FALSE]

\* translate_lyrics up to the cache entry it builds (lines 190-239): what the
\* client returned, the list the method returns, and the entry
TranslationPass(lyrics_data, run) ==
    LET ordered == SortByTime(lyrics_data)
        original_lines == [i \in DOMAIN ordered |-> ordered[i].words]
        out == TranslateLines(original_lines, run)
        tried == TryTranslateLines(out, original_lines)
        translated_lines == tried.lines
        translated_title == TranslateSongTitle("T", run.title)
        translated_lyrics == ZipMerge(ordered, translated_lines)
    IN [sent |-> original_lines,
        out |-> out,
        raised |-> tried.raised,
        ret |-> translated_lyrics,
        entry |-> [shape |-> "dict", lyrics |-> translated_lyrics,
                   lyrics_source |-> "Unknown",
                   translation_source |-> SourceName(run),
                   synced |-> TRUE,
                   title |-> IF translated_title # ""
                             THEN [kind |-> "set", original |-> "T", translated |-> translated_title]
                             ELSE [kind |-> "absent"]]]

\* the passes, evaluated once
Passes == [lyrics_data \in AllLyricsData, run \in ClientRuns |-> TranslationPass(lyrics_data, run)]

\* if len(self.cache) > self.max_cache_size: evict one
Bounded(c) == IF Len(c) > MaxCacheSize THEN DictPopFirst(c) ELSE c

\* Mutant of CallbackAt: the callback runs before the cache is written
CallbackAtStart(before, saved) == before

\* if callback: callback(translated_lyrics), lines 250-251: the cache and the
\* file as the callback finds them, given their state at the start of the
\* method and after save_cache (line 247)
CallbackAt(before, saved) == saved

\* translate_lyrics(lyrics_data, song_id, "Unknown", callback, song_title, synced)
TranslateLyrics(lyrics_data, song_id, run, synced) ==
    /\ IF Passes[lyrics_data, run].raised
       THEN \* the exception leaves the method before the cache is touched
            /\ lastOp' = [op |-> "translate_lyrics", id |-> song_id, data |-> lyrics_data,
                          before |-> insOrder, read |-> lastRead,
                          sent |-> Passes[lyrics_data, run].sent,
                          out |-> Passes[lyrics_data, run].out,
                          ret |-> NoneV, callback |-> NoneV, seen |-> <<>>,
                          start |-> Keys(cache), entry |-> NoneV, raised |-> TRUE]
            /\ UNCHANGED <<cache, disk, fs, insOrder, lastRead, lastTr>>
       ELSE /\ cache' = Bounded(DictSet(cache, song_id,
                                        [Passes[lyrics_data, run].entry EXCEPT !.synced = synced]))
            /\ SaveCache(cache')
            /\ lastOp' = [op |-> "translate_lyrics", id |-> song_id, data |-> lyrics_data,
                          before |-> insOrder, read |-> lastRead,
                          sent |-> Passes[lyrics_data, run].sent,
                          out |-> Passes[lyrics_data, run].out,
                          ret |-> Passes[lyrics_data, run].ret,
                          callback |-> Passes[lyrics_data, run].ret,
                          seen |-> <<CallbackAt([cache |-> cache, disk |-> disk],
                                                [cache |-> cache', disk |-> disk'])>>,
                          start |-> Keys(cache),
                          entry |-> [Passes[lyrics_data, run].entry EXCEPT !.synced = synced],
                          raised |-> SaveCacheRaises(fs)]
            /\ Track(cache', "translate_lyrics", song_id, Passes[lyrics_data, run].ret)
    /\ UNCHANGED svcVars

\* get_cached_lyrics(song_id): the stored list is sorted in place
GetCachedLyrics(song_id) ==
    LET cached == DictGet(cache, song_id)
    IN /\ IF Truthy(cached)
          THEN /\ cache' = DictSet(cache, song_id, [cached EXCEPT !.lyrics = TrySortByTime(cached.lyrics)])
               /\ lastOp' = [op |-> "get_cached_lyrics", id |-> song_id, stored |-> cached,
                             ret |-> CachedEntry(cached), raised |-> FALSE]
          ELSE /\ cache' = cache
               /\ lastOp' = [op |-> "get_cached_lyrics", id |-> song_id, stored |-> cached,
                             ret |-> NoneV, raised |-> FALSE]
       /\ lastRead' = IF Truthy(cached) THEN song_id ELSE lastRead
       /\ UNCHANGED <<disk, fs, insOrder, lastTr>>
       /\ UNCHANGED svcVars

\* get_cached_title(song_id)
GetCachedTitle(song_id) ==
    LET cached == DictGet(cache, song_id)
    IN /\ lastOp' = [op |-> "get_cached_title", id |-> song_id, raised |-> FALSE,
                     ret |-> IF Truthy(cached) /\ cached.shape = "dict" /\ cached.title.kind = "set"
                             THEN <<Str(cached.title.original), Str(cached.title.translated)>>
                             ELSE <<NoneV, NoneV>>]
       /\ lastRead' = IF Truthy(cached) THEN song_id ELSE lastRead
       /\ UNCHANGED <<cache, disk, fs, insOrder, lastTr>>
       /\ UNCHANGED svcVars

\* update_cache_with_title(song_id, original_title, translated_title)
UpdateCacheWithTitle(song_id) ==
    /\ IF song_id \in KeySet(cache)
       THEN LET cached == DictGet(cache, song_id)
            IN IF cached.shape = "list"
               THEN \* a list takes no string index: TypeError
                    /\ lastOp' = [op |-> "update_cache_with_title", id |-> song_id,
                                  stored |-> cached, raised |-> TRUE]
                    /\ UNCHANGED <<cache, disk, fs, insOrder, lastRead, lastTr>>
               ELSE LET c == DictSet(cache, song_id,
                                     [cached EXCEPT !.title = [kind |-> "set", original |-> "T",
                                                               translated |-> "Tt"]])
                    IN /\ cache' = c
                       /\ SaveCache(c)
                       /\ lastOp' = [op |-> "update_cache_with_title", id |-> song_id,
                                     stored |-> cached, raised |-> FALSE]
                       /\ Track(c, "update_cache_with_title", song_id, NoneV)
       ELSE LET c == DictSet(cache, song_id,
                             [shape |-> "dict", lyrics |-> <<>>, lyrics_source |-> "Unknown",
                              translation_source |-> "Unknown", synced |-> TRUE,
                              title |-> [kind |-> "set", original |-> "T", translated |-> "Tt"]])
            IN /\ cache' = c
               /\ SaveCache(c)
               /\ lastOp' = [op |-> "update_cache_with_title", id |-> song_id,
                             stored |-> NoneV, raised |-> FALSE]
               /\ Track(c, "update_cache_with_title", song_id, NoneV)
    /\ UNCHANGED svcVars

\* clear_cache(song_id); song_id 0 stands for None: clear everything
ClearCache(song_id) ==
    LET c == IF song_id # 0
             THEN IF song_id \in KeySet(cache) THEN DictDel(cache, song_id) ELSE cache
             ELSE <<>>
    IN /\ cache' = c
       /\ SaveCache(c)
       /\ lastOp' = [op |-> "clear_cache", id |-> song_id, before |-> Keys(cache),
                     raised |-> SaveCacheRaises(fs)]
       /\ Track(c, "clear_cache", song_id, NoneV)
       /\ UNCHANGED svcVars

\* What _load_cache may find in the cache file: nothing, or entries an earlier
\* run saved, one of them in the old bare-list shape
LoadedCaches ==
    { <<>>,
      <<[id |-> 1, val |-> [shape |-> "list",
                            lyrics |-> <<[startTimeMs |-> StrV(<<1, 0>>), words |-> "b", translated |-> "B"],
                                         [startTimeMs |-> IntV(9), words |-> "a", translated |-> "A"]>>]]>> }

InitManager ==
    /\ cache \in LoadedCaches
    /\ disk = cache
    /\ fs = "ok"
    /\ insOrder = Keys(cache)
    /\ lastOp = [op |-> "init"]
    /\ lastRead = 0
    /\ lastTr = [id \in TrackIds |-> NoneV]

-----------------------------------------------------------------------------
(* app.py: merge_translations_into_current *)

RECURSIVE Digits(_)
\* str(n) for an int n >= 0, as its decimal digits
Digits(n) == IF n < 10 THEN <<n>> ELSE Append(Digits(n \div 10), n % 10)

\* current_lookup[key]: the dict comprehension keeps the last line of a key;
\* 0 when the key is not in the lookup. An int and a str never compare equal.
LookupIndex(current, time, words) ==
    LET hits == {i \in DOMAIN current :
                    current[i].startTimeMs = time /\ current[i].words = words}
    IN IF hits = {} THEN 0 ELSE CHOOSE i \in hits : \A j \in hits : j <= i

\* alt_key: the time in the opposite type; int() of a str may raise ValueError
AltTime(time) ==
    IF time.typ = "str"
    THEN IF PyIntOk(time) THEN IntV(PyInt(time)) ELSE NoneV
    ELSE StrV(Digits(time.v))

\* Mutant of MergeOne: a translated line that matches nothing is added
MergeOneOrAdd(current, translated) ==
    LET direct == LookupIndex(current, translated.startTimeMs, translated.words)
        alt_key == AltTime(translated.startTimeMs)
        alt == IF alt_key = NoneV THEN 0 ELSE LookupIndex(current, alt_key, translated.words)
        hit == IF direct # 0 THEN direct ELSE alt
    IN IF hit = 0 THEN Append(current, translated)
       ELSE [current EXCEPT ![hit].translated = translated.translated]

\* the body of the loop over translated_lyrics, for one translated line
MergeOne(current, translated) ==
    LET direct == LookupIndex(current, translated.startTimeMs, translated.words)
        alt_key == AltTime(translated.startTimeMs)
        alt == IF alt_key = NoneV THEN 0 ELSE LookupIndex(current, alt_key, translated.words)
        hit == IF direct # 0 THEN direct ELSE alt
    IN IF hit = 0 THEN current
       ELSE [current EXCEPT ![hit].translated = translated.translated]

RECURSIVE MergeTranslations(_, _)
\* merge_translations_into_current(translated_lyrics): current_lyrics afterwards
MergeTranslations(current, translated_lyrics) ==
    IF translated_lyrics = <<>> THEN current
    ELSE MergeTranslations(MergeOne(current, Head(translated_lyrics)), Tail(translated_lyrics))

\* Lists handed to the merge and lists on display: int times and
\* decimal-string times
MaxMergeLines == 2     \* lines per list in MergeSpec
MergeTimes == {IntV(1), StrV(<<1>>), IntV(2)}
MergeWords == {"a", "b"}
MergeKeyLists ==
    UNION {[1..n -> [startTimeMs : MergeTimes, words : MergeWords]] : n \in 1..MaxMergeLines}
CurrentLists ==
    {[i \in DOMAIN keys |-> [startTimeMs |-> keys[i].startTimeMs, words |-> keys[i].words,
                              translated |-> "o"]] : keys \in MergeKeyLists}
TranslatedLists ==
    {[i \in DOMAIN keys |-> [startTimeMs |-> keys[i].startTimeMs, words |-> keys[i].words,
                              translated |-> IF i = 1 THEN "X" ELSE "Y"]] : keys \in MergeKeyLists}

\* merge_translations_into_current applied to the lines on display
Merge(translated_lyrics) ==
    /\ lastMerge.op = "init"
    /\ current_lyrics' = MergeTranslations(current_lyrics, translated_lyrics)
    /\ lastMerge' = [op |-> "merge", before |-> current_lyrics, translated |-> translated_lyrics]
    /\ UNCHANGED <<svcVars, mgrVars, uiVars, lastCall>>

InitUi ==
    /\ playing = 0
    /\ current_song_id = 0
    /\ uipc = "idle"
    /\ ul = [song |-> 0, refresh |-> FALSE]
    /\ status = "Ready"
    /\ threads = <<>>
    /\ after = {}
    /\ flow = <<>>
    /\ doneFlow = <<>>
    /\ lastUi = "none"
    /\ cacheWriter = "none"

InitApp ==
    /\ current_lyrics = <<>>
    /\ lastMerge = [op |-> "init"]
    /\ lastCall = [fn |-> "none"]
    /\ InitUi

Init == InitService /\ InitManager /\ InitApp

Next == GetLyrics \/ WorkerStart \/ WorkerFinish \/ Receive \/ Timeout \/ Wake

Spec == Init /\ [][Next]_vars

NextService == GetLyrics \/ WorkerStart \/ WorkerFinishAny \/ Receive \/ Timeout \/ Wake

ServiceSpec == Init /\ [][NextService]_vars

Translate ==
    \E id \in TrackIds : \E run \in RunsFor(id) :
        TranslateLyrics(LyricsData(id), id, run, LyricsSynced(id)) /\ UNCHANGED appVars
GetLyricsCached == \E id \in TrackIds : GetCachedLyrics(id) /\ UNCHANGED appVars
GetTitleCached == \E id \in TrackIds : GetCachedTitle(id) /\ UNCHANGED appVars
UpdateTitle == \E id \in TrackIds : UpdateCacheWithTitle(id) /\ UNCHANGED appVars
Clear == \E id \in TrackIds \cup {0} : ClearCache(id) /\ UNCHANGED appVars

NextCache == Translate \/ GetLyricsCached \/ GetTitleCached \/ UpdateTitle \/ Clear

CacheSpec == Init /\ [][NextCache]_vars

\* translate_lyrics for one track with any list of lines and any client run
TranslateAny ==
    \E lyrics_data \in AllLyricsData, run \in ClientRuns :
        TranslateLyrics(lyrics_data, 1, run, TRUE) /\ UNCHANGED appVars

NextTranslate == TranslateAny

\* The lines an entry of the cache file may hold: times as int or as str
\* (one of them a string int() rejects), repeated times, any order
MaxStoredLines == 3
StoredTimes == {IntV(1), StrV(<<1>>), StrV(<<0, 2>>), StrV(<<>>)}
StoredLines == [startTimeMs : StoredTimes, words : {"a", "b"}, translated : {"X"}]
StoredLyrics == UNION {[1..n -> StoredLines] : n \in 0..MaxStoredLines}

\* a cache file with one entry, in the old bare-list shape or the current one
StoredCaches ==
    {<<[id |-> 1, val |-> [shape |-> "list", lyrics |-> l]]>> : l \in StoredLyrics}
    \cup
    {<<[id |-> 1, val |-> [shape |-> "dict", lyrics |-> l, lyrics_source |-> "Unknown",
                           translation_source |-> "Google Translate", synced |-> FALSE,
                           title |-> [kind |-> "absent"]]]>> : l \in StoredLyrics}

\* the state after _load_cache found such a file
InitRead ==
    /\ InitService
    /\ InitApp
    /\ cache \in StoredCaches
    /\ disk = cache
    /\ fs = "ok"
    /\ insOrder = Keys(cache)
    /\ lastOp = [op |-> "init"]
    /\ lastRead = 0
    /\ lastTr = [id \in TrackIds |-> NoneV]

NextRead == GetLyricsCached

\* What the file system may do with the cache file during a run
FileSystems == {"ok", "noaccess", "full"}

\* The state after LyricsManager() with any cache file on any file system
InitFile ==
    /\ InitService
    /\ InitApp
    /\ fs \in FileSystems
    /\ disk \in LoadedCaches \cup {Corrupt}
    /\ cache = LoadCache(disk, fs)
    /\ insOrder = Keys(cache)
    /\ lastOp = [op |-> "init"]
    /\ lastRead = 0
    /\ lastTr = [id \in TrackIds |-> NoneV]

NextFile == Translate \/ Clear

FileSpec == InitFile /\ [][NextFile]_vars

-----------------------------------------------------------------------------
(* lyrics_providers.py: the functions that turn a source's text into lines *)

\* A plain text is a sequence of raw lines, each the sequence of its words;
\* a raw line without words is blank
MaxPlainLines == 5
PlainRawLines == {<<>>, <<"a">>, <<"a", "b">>}
PlainTexts == UNION {[1..n -> PlainRawLines] : n \in 0..MaxPlainLines}

\* track.duration_ms: unknown (0), short, and long with and without remainder
Durations == {0, 2500, 10000, 30000}

Max(a, b) == IF a >= b THEN a ELSE b

RECURSIVE Flatten(_)
\* plain_text.split(): the words of the whole text
Flatten(text) == IF text = <<>> THEN <<>> ELSE Head(text) \o Flatten(Tail(text))

\* Mutant of Spacing: the default spacing whatever the duration
SpacingDefault(duration_ms, count) == 3000

\* spacing = 3000; if duration_ms > 0: spacing = max(1000, duration_ms // max(1, count + 1))
Spacing(duration_ms, count) ==
    IF duration_ms > 0
    THEN Max(1000, duration_ms \div Max(1, count + 1))
    ELSE 3000

RECURSIVE SyntheticLines(_, _, _)
\* the loop: lines.append(LyricsLine(start_time_ms=current, words=text));
\* current += spacing
SyntheticLines(texts, current, spacing) ==
    IF texts = <<>> THEN <<>>
    ELSE <<[start_time_ms |-> current, words |-> Head(texts)]>>
         \o SyntheticLines(Tail(texts), current + spacing, spacing)

\* LRCLibLyricsProvider._plain_to_synthetic: one line per non-blank raw line
LRCLibPlainToSynthetic(plain_text, duration_ms) ==
    LET raw_lines == SelectSeq(plain_text, LAMBDA ln : ln # <<>>)
    IN IF raw_lines = <<>> THEN <<>>
       ELSE SyntheticLines(raw_lines, 0, Spacing(duration_ms, Len(raw_lines)))

\* UtaNetLyricsProvider._plain_to_synthetic: one line per word
UtaNetPlainToSynthetic(plain_text, duration_ms) ==
    LET segments == [i \in DOMAIN Flatten(plain_text) |-> <<Flatten(plain_text)[i]>>]
    IN IF segments = <<>> THEN <<>>
       ELSE SyntheticLines(segments, 0, Spacing(duration_ms, Len(segments)))

\* a call of LRCLibLyricsProvider._plain_to_synthetic
CallLRCLibPlain ==
    \E text \in PlainTexts, d \in Durations :
        lastCall' = [fn |-> "LRCLib._plain_to_synthetic", text |-> text, duration_ms |-> d,
                     ret |-> LRCLibPlainToSynthetic(text, d)]

\* a call of UtaNetLyricsProvider._plain_to_synthetic
CallUtaNetPlain ==
    \E text \in PlainTexts, d \in Durations :
        lastCall' = [fn |-> "UtaNet._plain_to_synthetic", text |-> text, duration_ms |-> d,
                     ret |-> UtaNetPlainToSynthetic(text, d)]

PlainToSynthetic ==
    /\ lastCall.fn = "none"
    /\ CallLRCLibPlain \/ CallUtaNetPlain
    /\ UNCHANGED <<svcVars, mgrVars, current_lyrics, lastMerge, uiVars>>

\* A synced text is a sequence of raw lines, each a sequence of items: a
\* time tag the pattern TIME_TAG matches ([mm:ss], cc = -1, or [mm:ss.cc]),
\* or a character outside any tag (a letter or a blank)
LrcTag(mm, ss, cc) == [kind |-> "tag", mm |-> mm, ss |-> ss, cc |-> cc]
LrcChar(c) == [kind |-> "char", c |-> c]

LrcRawLines ==
    { <<>>,
      <<LrcChar(" ")>>,
      <<LrcChar("a")>>,
      <<LrcTag(0, 1, -1), LrcChar("a")>>,
      <<LrcTag(0, 0, 50), LrcTag(1, 0, -1), LrcChar(" "), LrcChar("b"), LrcChar(" ")>>,
      <<LrcTag(0, 1, 0), LrcChar("a"), LrcChar(" "), LrcChar("b")>>,
      <<LrcTag(1, 0, -1)>>,
      <<LrcChar("a"), LrcTag(0, 0, 50), LrcChar("b")>> }

MaxLrcLines == 3
LrcTexts == UNION {[1..n -> LrcRawLines] : n \in 0..MaxLrcLines}

RECURSIVE LStrip(_)
LStrip(chars) ==
    IF chars # <<>> /\ Head(chars) = LrcChar(" ") THEN LStrip(Tail(chars)) ELSE chars

RECURSIVE RStrip(_)
RStrip(chars) ==
    IF chars # <<>> /\ chars[Len(chars)] = LrcChar(" ")
    THEN RStrip(SubSeq(chars, 1, Len(chars) - 1))
    ELSE chars

\* str.strip()
Strip(chars) == RStrip(LStrip(chars))

\* Mutant of TagStart: the centiseconds are added as milliseconds
TagStartCentisAsMillis(m) ==
    (m.mm * 60 + m.ss) * 1000 + (IF m.cc = -1 THEN 0 ELSE m.cc)

\* start_ms = (mm * 60 + ss) * 1000 + (cs * 10), cs = int(m.group(3) or 0)
TagStart(m) ==
    (m.mm * 60 + m.ss) * 1000 + (IF m.cc = -1 THEN 0 ELSE m.cc) * 10

\* the body of the loop for one raw line: nothing for a blank line or a line
\* without a tag, else one line per match with the text left after
\* TIME_TAG.sub("", raw).strip()
ParseLrcLine(raw) ==
    LET matches == SelectSeq(raw, LAMBDA it : it.kind = "tag")
        text == Strip(SelectSeq(raw, LAMBDA it : it.kind = "char"))
    IN IF Strip(raw) = <<>> THEN <<>>
       ELSE [k \in DOMAIN matches |-> [start_time_ms |-> TagStart(matches[k]), words |-> text]]

RECURSIVE ParseLrcLines(_)
\* the lines appended over lrc_text.splitlines(), in the order of discovery
ParseLrcLines(lrc_text) ==
    IF lrc_text = <<>> THEN <<>>
    ELSE ParseLrcLine(Head(lrc_text)) \o ParseLrcLines(Tail(lrc_text))

\* a call of LRCLibLyricsProvider._parse_lrc
CallParseLrc ==
    /\ lastCall.fn = "none"
    /\ \E text \in LrcTexts :
          lastCall' = [fn |-> "LRCLib._parse_lrc", text |-> text,
                       ret |-> ParseLrc(ParseLrcLines(text))]
    /\ UNCHANGED <<svcVars, mgrVars, current_lyrics, lastMerge, uiVars>>

NextSynthetic == PlainToSynthetic

NextParse == CallParseLrc

\* The lists of lines handed to a translation client, and the positions at
\* which the API may fail
MaxClientLines == 3
ClientLines == UNION {[1..n -> {"a", "b", "c"}] : n \in 0..MaxClientLines}

\* a call of GoogleTranslateClient.translate_lines
CallGoogleTranslateLines ==
    /\ lastCall.fn = "none"
    /\ \E lines \in ClientLines, err \in SUBSET (1..MaxClientLines) :
          lastCall' = [fn |-> "Google.translate_lines", lines |-> lines, err |-> err,
                       ret |-> GoogleTranslateLines(lines, [client |-> "google", ok |-> TRUE,
                                                            err |-> err])]
    /\ UNCHANGED <<svcVars, mgrVars, current_lyrics, lastMerge, uiVars>>

\* The API keys read from the secrets file, as sequences of characters
ApiKeys == { <<>>, <<" ">>, <<"k">>, <<" ", "k", " ">> }

RECURSIVE KeyStrip(_)
\* api_key.strip()
KeyStrip(key) ==
    IF key # <<>> /\ Head(key) = " " THEN KeyStrip(Tail(key))
    ELSE IF key # <<>> /\ key[Len(key)] = " " THEN KeyStrip(SubSeq(key, 1, Len(key) - 1))
    ELSE key

\* Mutant of OpenRouterClientInit: the constructor rejects an empty key
OpenRouterClientInitStrict(api_key) ==
    IF KeyStrip(api_key) = <<>> THEN Raise("ValueError")
    ELSE [kind |-> "ok", client |-> "openrouter", api_key |-> KeyStrip(api_key)]

\* OpenRouterClient.__init__: stores the stripped key, checks nothing
OpenRouterClientInit(api_key) ==
    [kind |-> "ok", client |-> "openrouter", api_key |-> KeyStrip(api_key)]

\* init_translation_client: the OpenRouter client, or Google Translate when
\* another provider is selected or the constructor raised
InitTranslationClient(provider, api_key) ==
    IF provider = "OpenRouter" /\ OpenRouterClientInit(api_key).kind = "ok"
    THEN OpenRouterClientInit(api_key)
    ELSE [kind |-> "ok", client |-> "google"]

\* The run of OpenRouterClient.translate_lines on a constructed client
OpenRouterRun(client, http) ==
    [client |-> "openrouter", key |-> IF client.api_key = <<>> THEN "" ELSE "k",
     http |-> http, delta |-> 0]

\* The requests.post calls translate_lines makes: the key check comes first
OpenRouterRequests(client) == IF client.api_key = <<>> THEN 0 ELSE 1

\* init_translation_client with OpenRouter selected, then (invoked) one call
\* of translate_lines on the client it installed
CallOpenRouterTranslateLines ==
    /\ lastCall.fn = "none"
    /\ \E key \in ApiKeys, lines \in ClientLines, http \in BOOLEAN, invoked \in BOOLEAN :
          LET made == OpenRouterClientInit(key)
              client == InitTranslationClient("OpenRouter", key)
          IN lastCall' =
                [fn |-> "OpenRouter.translate_lines", api_key |-> key, lines |-> lines,
                 made |-> made.kind, client |-> client, invoked |-> invoked,
                 requests |-> IF invoked /\ client.client = "openrouter"
                              THEN OpenRouterRequests(client) ELSE 0,
                 ret |-> IF ~invoked THEN NoneV
                         ELSE IF client.client = "openrouter"
                         THEN OpenRouterTranslateLines(lines, OpenRouterRun(client, http))
                         ELSE GoogleTranslateLines(lines, [client |-> "google", ok |-> TRUE,
                                                           err |-> {}])]
    /\ UNCHANGED <<svcVars, mgrVars, current_lyrics, lastMerge, uiVars>>

NextClient == CallGoogleTranslateLines \/ CallOpenRouterTranslateLines

\* Artist names as sequences of characters; "W" stands for the full-width
\* space U+3000
ArtistNames == { <<"a", " ", "b">>, <<"A", "W", " ", "B", " ">>, <<"a", "b">>, <<"c">> }

\* str.lower() on one character
Lower(c) == CASE c = "A" -> "a" [] c = "B" -> "b" [] OTHER -> c

RECURSIVE Squeeze(_, _)
\* ' '.join(base.split()) short of the last blank: runs of blanks become one
\* blank, leading blanks go
Squeeze(chars, afterBlank) ==
    IF chars = <<>> THEN <<>>
    ELSE IF Head(chars) = " "
    THEN (IF afterBlank THEN <<>> ELSE <<" ">>) \o Squeeze(Tail(chars), TRUE)
    ELSE <<Head(chars)>> \o Squeeze(Tail(chars), FALSE)

\* UtaNetLyricsProvider._normalize_name
NormalizeName(name) ==
    LET base == [i \in DOMAIN name |-> IF name[i] = "W" THEN " " ELSE name[i]]
        joined == KeyStrip(Squeeze(base, TRUE))
    IN [i \in DOMAIN joined |-> Lower(joined[i])]

\* The songs parsed from the search result: artist id, artist name, lyrics
MaxCandidates == 2
CandidateLyrics == { <<<<"a">>>>, <<<<"a", "b">>>> }
Candidates == [artist_id : {"1", "2"}, artist_name : ArtistNames, lyrics : CandidateLyrics]
SongLists == UNION {[1..n -> Candidates] : n \in 0..MaxCandidates}

\* What the LLM request comes to: no usable answer (request failed, HTTP
\* error, unparsable content), or the value under "artist_id" of the JSON
\* object: null, a string or a number
LLMAnswers ==
    { [kind |-> "fail"], [kind |-> "null"],
      [kind |-> "str", s |-> "1"], [kind |-> "str", s |-> "2"], [kind |-> "str", s |-> "9"],
      [kind |-> "str", s |-> ""], [kind |-> "int", v |-> 2] }

\* if artist_id_llm: (truthiness of the answer)
AnswerTruthy(llm) ==
    CASE llm.kind = "str" -> llm.s # ""
      [] llm.kind = "int" -> llm.v # 0
      [] OTHER -> FALSE

\* str(artist_id_llm)
PyStr(llm) ==
    CASE llm.kind = "str" -> llm.s
      [] llm.kind = "int" -> (CASE llm.v = 1 -> "1" [] llm.v = 2 -> "2" [] OTHER -> "9")

\* the first song for which test holds, 0 for none
FirstSong(songs, test(_)) ==
    IF \E i \in DOMAIN songs : test(songs[i])
    THEN CHOOSE i \in DOMAIN songs :
            test(songs[i]) /\ \A j \in 1..(i - 1) : ~test(songs[j])
    ELSE 0

\* Mutant of LocalMatch: no candidate is matched locally
LocalMatchNone(songs, artist_name) == 0

\* for s in songs: if _normalize_name(s['artist_name']) == current_artist_norm
LocalMatch(songs, artist_name) ==
    FirstSong(songs, LAMBDA s : NormalizeName(s.artist_name) = NormalizeName(artist_name))

\* UtaNetLyricsProvider.get_lyrics from the parsed songs on: the local match,
\* the LLM fallback, the payload
UtaNetSelect(songs, artist_name, key, llm, duration_ms) ==
    LET local == LocalMatch(songs, artist_name)
        api_key == KeyStrip(key)
        called == local = 0 /\ songs # <<>> /\ api_key # <<>>
        byLLM == IF called /\ llm.kind # "fail" /\ AnswerTruthy(llm)
                 THEN FirstSong(songs, LAMBDA s : s.artist_id = PyStr(llm))
                 ELSE 0
        chosen == IF local # 0 THEN local ELSE byLLM
    IN [local |-> local, called |-> called, chosen |-> chosen,
        ret |-> IF chosen # 0
                THEN UtaNetGetLyrics([kind |-> "ok",
                                      selected |-> UtaNetPlainToSynthetic(songs[chosen].lyrics,
                                                                          duration_ms)])
                ELSE NoneV]

\* a call of UtaNetLyricsProvider.get_lyrics whose search request succeeded
CallUtaNetSelect ==
    /\ lastCall.fn = "none"
    /\ \E songs \in SongLists, artist_name \in ArtistNames, key \in {<<>>, <<"k">>},
          llm \in LLMAnswers :
          lastCall' = [fn |-> "UtaNet.get_lyrics", songs |-> songs, artist_name |-> artist_name,
                       api_key |-> key, llm |-> llm,
                       sel |-> UtaNetSelect(songs, artist_name, key, llm, 10000)]
    /\ UNCHANGED <<svcVars, mgrVars, current_lyrics, lastMerge, uiVars>>

NextScrape == CallUtaNetSelect

ScrapeSpec == Init /\ [][NextScrape]_vars

ClientSpec == Init /\ [][NextClient]_vars

ParseSpec == Init /\ [][NextParse]_vars

SyntheticSpec == Init /\ [][NextSynthetic]_vars

ReadSpec == InitRead /\ [][NextRead]_vars

TranslateSpec == Init /\ [][NextTranslate]_vars

\* merge_translations_into_current on any list on display with any translated list
InitMerge ==
    /\ InitService
    /\ InitManager
    /\ cache = <<>>
    /\ current_lyrics \in CurrentLists
    /\ lastMerge = [op |-> "init"]
    /\ lastCall = [fn |-> "none"]
    /\ InitUi

MergeAny == \E translated_lyrics \in TranslatedLists : Merge(translated_lyrics)

NextMerge == MergeAny

MergeSpec == InitMerge /\ [][NextMerge]_vars

-----------------------------------------------------------------------------
(* app.py: update_display, update_lyrics, refresh_lyrics and the translation
   thread. lyrics_service.get_lyrics is taken by its result: None, or the
   dict of a payload with lines. *)

MaxThreads == 1        \* translation threads alive at a time
MaxAppTracks == 2      \* tracks Spotify plays in AppSpec
AppTracks == 1..MaxAppTracks

\* the payload a provider following BaseLyricsProvider builds for a track
TrackPayload(id) ==
    [kind |-> "payload", language |-> "ja",
     lines |-> [i \in DOMAIN LyricsData(id) |->
                   [start_time_ms |-> LyricsData(id)[i].startTimeMs.v,
                    words |-> LyricsData(id)[i].words]],
     synced |-> LyricsSynced(id)]

\* what lyrics_service.get_lyrics(track_meta, song_id) can return; lyrics
\* are found only while fewer than MaxThreads translations are under way
FetchResults(id) ==
    IF Len(threads) < MaxThreads THEN {NoneV, ToApiDict(TrackPayload(id))} ELSE {NoneV}

\* a transition starts with the cache check
StartFlow == flow' = <<"Checking-Cache">>

\* Mutant of CacheHit: the cache is never used
CacheHitNever(cached) == FALSE

\* if cached:
CacheHit(cached) == cached # NoneV

\* Spotify goes on to another track
PlayTrack ==
    /\ \E id \in AppTracks : id # playing /\ playing' = id
    /\ UNCHANGED <<svcVars, mgrVars, current_lyrics, lastMerge, lastCall>>
    /\ UNCHANGED <<current_song_id, uipc, ul, status, threads, after,
                   flow, doneFlow, lastUi, cacheWriter>>

\* update_display finds song_id != current_song_id and calls update_lyrics
UpdateDisplay ==
    /\ uipc = "idle"
    /\ playing # 0
    /\ playing # current_song_id
    /\ current_song_id' = playing
    /\ uipc' = "check"
    /\ ul' = [song |-> playing, refresh |-> FALSE]
    /\ StartFlow
    /\ UNCHANGED <<svcVars, mgrVars, current_lyrics, lastMerge, lastCall>>
    /\ UNCHANGED <<playing, status, threads, after, doneFlow, lastUi, cacheWriter>>

\* refresh_lyrics: clear_cache(song_id), then update_lyrics
RefreshLyrics ==
    /\ uipc = "idle"
    /\ playing # 0
    /\ ClearCache(playing)
    /\ cacheWriter' = "ui"
    /\ status' = "Cache cleared. Refreshing lyrics..."
    /\ lastUi' = "ui"
    /\ uipc' = "check"
    /\ ul' = [song |-> playing, refresh |-> TRUE]
    /\ StartFlow
    /\ UNCHANGED <<current_lyrics, lastMerge, lastCall, playing, current_song_id, threads, after, doneFlow>>

\* update_lyrics: cached = get_cached_lyrics(song_id) and the branch on it
CheckCache ==
    /\ uipc = "check"
    /\ GetCachedLyrics(ul.song)
    /\ IF CacheHit(lastOp'.ret)
       THEN \* the cached branch: render, or report an entry without lines
            /\ current_lyrics' = IF lastOp'.ret.lyrics # <<>>
                                 THEN lastOp'.ret.lyrics ELSE current_lyrics
            /\ status' = IF lastOp'.ret.lyrics # <<>>
                         THEN "Ready" ELSE "Cached lyrics data corrupted"
            /\ flow' = flow \o <<"Render-Cached", "Idle">>
            /\ uipc' = "idle"
       ELSE /\ status' = "Loading lyrics..."
            /\ flow' = Append(flow, "Fetching")
            /\ uipc' = "fetch"
            /\ UNCHANGED current_lyrics
    /\ lastUi' = "ui"
    /\ UNCHANGED <<lastMerge, lastCall, playing, current_song_id, ul, threads, after,
                   doneFlow, cacheWriter>>

\* update_lyrics: lyrics = lyrics_service.get_lyrics(...) and what follows
\* lyrics.get('source', 'Unknown') on the dict get_lyrics returned
LyricsSourceOf(lyrics) ==
    IF "source" \in DOMAIN lyrics THEN lyrics.source ELSE "Unknown"

FetchLyrics ==
    /\ uipc = "fetch"
    /\ \E lyrics \in FetchResults(ul.song) :
          IF lyrics # NoneV /\ lyrics.lyrics.lines # <<>>
          THEN /\ current_lyrics' =
                     [i \in DOMAIN lyrics.lyrics.lines |->
                         [startTimeMs |-> lyrics.lyrics.lines[i].startTimeMs,
                          words |-> lyrics.lyrics.lines[i].words, translated |-> ""]]
               /\ status' = "Translating lyrics..."
               /\ threads' = Append(threads, [song |-> ul.song, data |-> lyrics.lyrics.lines,
                                               synced |-> lyrics.lyrics.synced,
                                               source |-> LyricsSourceOf(lyrics),
                                               pc |-> "translate", run |-> NoneV,
                                               flow |-> Append(flow, "Translating")])
               /\ flow' = Append(flow, "Translating")
          ELSE /\ status' = "No lyrics found"
               /\ flow' = Append(flow, "Idle")
               /\ UNCHANGED <<current_lyrics, threads>>
    /\ uipc' = "idle"
    /\ lastUi' = "ui"
    /\ UNCHANGED <<svcVars, mgrVars, lastMerge, lastCall>>
    /\ UNCHANGED <<playing, current_song_id, ul, after, doneFlow, cacheWriter>>

\* the thread at position i, moved on to pc
ThreadAt(i, pc_) == [threads EXCEPT ![i].pc = pc_]

\* Thread i, translate_lyrics lines 190-239: the client calls and the entry
ThreadTranslate(i) ==
    /\ threads[i].pc = "translate"
    /\ \E run \in RunsFor(threads[i].song) :
          threads' = [threads EXCEPT ![i].pc = "insert", ![i].run = run]
    /\ UNCHANGED <<svcVars, mgrVars, current_lyrics, lastMerge, lastCall>>
    /\ UNCHANGED <<playing, current_song_id, uipc, ul, status, after,
                   flow, doneFlow, lastUi, cacheWriter>>

\* Thread i, line 241: self.cache[song_id] = cache_entry
ThreadInsert(i) ==
    /\ threads[i].pc = "insert"
    /\ cache' = DictSet(cache, threads[i].song,
                        [Passes[threads[i].data, threads[i].run].entry
                            EXCEPT !.synced = threads[i].synced,
                                   !.lyrics_source = threads[i].source])
    /\ Track(cache', "translate_lyrics", threads[i].song,
             Passes[threads[i].data, threads[i].run].ret)
    /\ threads' = ThreadAt(i, "evict")
    /\ cacheWriter' = "thread"
    /\ UNCHANGED <<svcVars, disk, fs, lastOp, current_lyrics, lastMerge, lastCall>>
    /\ UNCHANGED <<playing, current_song_id, uipc, ul, status, after,
                   flow, doneFlow, lastUi>>

\* Thread i, lines 244-245: the size check and the eviction
ThreadEvict(i) ==
    /\ threads[i].pc = "evict"
    /\ cache' = Bounded(cache)
    /\ Track(cache', "evict", threads[i].song, NoneV)
    /\ threads' = ThreadAt(i, "save")
    /\ cacheWriter' = "thread"
    /\ UNCHANGED <<svcVars, disk, fs, lastOp, current_lyrics, lastMerge, lastCall>>
    /\ UNCHANGED <<playing, current_song_id, uipc, ul, status, after,
                   flow, doneFlow, lastUi>>

\* Thread i, line 247: self.save_cache()
ThreadSave(i) ==
    /\ threads[i].pc = "save"
    /\ SaveCache(cache)
    /\ threads' = ThreadAt(i, "callback")
    /\ cacheWriter' = "thread"
    /\ UNCHANGED <<svcVars, cache, insOrder, lastOp, lastRead, lastTr, current_lyrics, lastMerge, lastCall>>
    /\ UNCHANGED <<playing, current_song_id, uipc, ul, status, after,
                   flow, doneFlow, lastUi>>

\* Thread i, lines 250-251: callback(translated_lyrics), which is
\* translate_callback of update_lyrics, run by the thread itself
ThreadCallback(i) ==
    /\ threads[i].pc = "callback"
    /\ status' = "Translation complete"
    /\ current_lyrics' = MergeTranslations(current_lyrics,
                                           Passes[threads[i].data, threads[i].run].ret)
    /\ lastMerge' = [op |-> "callback", song |-> threads[i].song, shown |-> current_song_id]
    /\ UNCHANGED lastCall
    /\ after' = after \cup {"update_translations", "ready"}
    /\ threads' = Remove(threads, i)
    /\ doneFlow' = threads[i].flow \o <<"Render-Fresh", "Idle">>
    /\ lastUi' = "thread"
    /\ UNCHANGED <<svcVars, mgrVars>>
    /\ UNCHANGED <<playing, current_song_id, uipc, ul, flow, cacheWriter>>

ThreadStep ==
    \E i \in DOMAIN threads :
        \/ ThreadTranslate(i)
        \/ ThreadInsert(i)
        \/ ThreadEvict(i)
        \/ ThreadSave(i)
        \/ ThreadCallback(i)

\* root.after(0, update_translations): the tree is rebuilt from current_lyrics
UpdateTranslations ==
    /\ uipc = "idle"
    /\ "update_translations" \in after
    /\ after' = after \ {"update_translations"}
    /\ lastUi' = "ui"
    /\ UNCHANGED <<svcVars, mgrVars, current_lyrics, lastMerge, lastCall>>
    /\ UNCHANGED <<playing, current_song_id, uipc, ul, status, threads,
                   flow, doneFlow, cacheWriter>>

\* root.after(3000, lambda: status_label.config(text="Ready"))
StatusReady ==
    /\ uipc = "idle"
    /\ "ready" \in after
    /\ after' = after \ {"ready"}
    /\ status' = "Ready"
    /\ lastUi' = "ui"
    /\ UNCHANGED <<svcVars, mgrVars, current_lyrics, lastMerge, lastCall>>
    /\ UNCHANGED <<playing, current_song_id, uipc, ul, threads,
                   flow, doneFlow, cacheWriter>>

NextApp ==
    \/ PlayTrack
    \/ UpdateDisplay
    \/ RefreshLyrics
    \/ CheckCache
    \/ FetchLyrics
    \/ ThreadStep
    \/ UpdateTranslations
    \/ StatusReady

AppSpec == Init /\ [][NextApp]_vars

\* update_cache_with_title for a track that has no entry, between two
\* transitions: the entry it creates holds the titles and no lyric line
StoreTitleOnly ==
    /\ uipc = "idle"
    /\ threads = <<>>
    /\ \E id \in AppTracks :
          /\ id \notin KeySet(cache)
          /\ UpdateCacheWithTitle(id)
    /\ UNCHANGED appVars

NextTitle == NextApp \/ StoreTitleOnly

TitleSpec == Init /\ [][NextTitle]_vars

-----------------------------------------------------------------------------
(* Claims about LyricsService.get_lyrics *)

\* the attempts of the current call that came before attempt j
Before(j) == 1..(j - 1)

AttemptsOn(name) == {i \in DOMAIN hist : Providers[hist[i].prov] = name}

\* the priority order the specification fixes
Rank(name) ==
    CASE name = "SyricsLyricsProvider" -> 1
      [] name = "LRCLibLyricsProvider" -> 2
      [] name = "UtaNetLyricsProvider" -> 3

\* C1: as soon as an attempt returns a payload with at least one line the
\* search stops: that attempt is the last one submitted, get_lyrics has
\* returned, and the value returned is built from exactly that payload.
C1_StopsAtFirstUsable ==
    \A i \in DOMAIN hist :
        hist[i].usable =>
            /\ i = Len(hist)
            /\ pc = "done"
            /\ pool[CurrentIdx].st = "done"
            /\ pool[CurrentIdx].prov = hist[i].prov
            /\ result = ToApiDict(pool[CurrentIdx].out)

\* C1 witness: the second attempt on the first provider returned an unsynced
\* one-line payload, and the search has stopped there.
C1_Witness ==
    /\ pc = "done"
    /\ Len(hist) = 2
    /\ hist[2].usable
    /\ hist[1].seen # "pending"
    /\ result # NoneV
    /\ Len(result.lyrics.lines) = 1

\* C2: providers are tried strictly in priority order (first-party API, then
\* community database, then scrape fallback): when an attempt is submitted,
\* every earlier attempt has ended without a usable payload, none of them
\* was on a later provider, and every earlier provider has been tried.
C2_PriorityOrder ==
    \A j \in DOMAIN hist :
        /\ \A i \in Before(j) :
               /\ hist[i].seen # "pending"
               /\ ~hist[i].usable
               /\ Rank(Providers[hist[i].prov]) <= Rank(Providers[hist[j].prov])
        /\ \A q \in DOMAIN Providers :
               Rank(Providers[q]) < Rank(Providers[hist[j].prov]) =>
                   \E i \in Before(j) : hist[i].prov = q

\* C2 witness: the scrape fallback is being attempted after the other two.
C2_Witness ==
    /\ pc = "wait"
    /\ Providers[hist[Len(hist)].prov] = "UtaNetLyricsProvider"
    /\ \E i \in DOMAIN hist : hist[i].seen = "timeout"
    /\ \E i \in DOMAIN hist : hist[i].seen = "result"

\* the lines and the synced flag a provider reads off its source's answer
SourceLines(name, src) ==
    CASE name = "SyricsLyricsProvider" -> SyricsParseLines(src.lines)
      [] name = "LRCLibLyricsProvider" ->
             IF src.synced # <<>> THEN ParseLrc(src.synced) ELSE src.plain
      [] name = "UtaNetLyricsProvider" -> src.selected

SourceSynced(name, src) ==
    CASE name = "SyricsLyricsProvider" -> TRUE
      [] name = "LRCLibLyricsProvider" -> src.synced # <<>>
      [] name = "UtaNetLyricsProvider" -> FALSE

\* C3: the first usable payload is returned: when a provider's source answered
\* within the timeout with at least one parsable line (and no earlier attempt
\* had one), get_lyrics returns a result (not None) with that provider's lines
\* and that provider's synced flag.
C3_FirstUsableReturned ==
    (pc = "done" /\ inTime.prov # 0) =>
        /\ result # NoneV
        /\ result.lyrics.lines =
               [i \in DOMAIN SourceLines(Providers[inTime.prov], inTime.src) |->
                    LineToDict(SourceLines(Providers[inTime.prov], inTime.src)[i])]
        /\ result.lyrics.synced = SourceSynced(Providers[inTime.prov], inTime.src)

\* C4: an attempt that exceeded its timeout never contributes to the result:
\* once get_lyrics has returned, its value is the payload of the attempt it
\* received in time (the last one), or None when no attempt was received with
\* a usable payload, whatever the abandoned calls returned afterwards.
C4_LateResultDiscarded ==
    pc = "done" =>
        IF \E i \in DOMAIN hist : hist[i].seen = "result" /\ hist[i].usable
        THEN /\ hist[Len(hist)].seen = "result"
             /\ result = ToApiDict(pool[CurrentIdx].out)
        ELSE result = NoneV

\* C4 witness: an attempt timed out, a later attempt's payload was accepted,
\* and an abandoned call has since ended with a different usable payload.
C4_Witness ==
    /\ pc = "done"
    /\ \E i \in DOMAIN hist : hist[i].seen = "timeout"
    /\ UsablePayload(lateOut)
    /\ result # NoneV
    /\ result # ToApiDict(lateOut)

\* C5: no exception raised in a provider call or by the timeout leaves
\* get_lyrics: the attempt counts as failed, and get_lyrics ends only by
\* returning, None unless the last attempt returned a usable payload.
C5_NoExceptionEscapes ==
    /\ pc # "raised"
    /\ (pc = "done" /\ ~hist[Len(hist)].usable) => result = NoneV

\* C5 witness: a provider call raised, a later attempt timed out, and
\* get_lyrics returned None.
C5_Witness ==
    /\ pc = "done"
    /\ excSeen
    /\ \E i \in DOMAIN hist : hist[i].seen = "timeout"
    /\ result = NoneV

\* C6: get_lyrics terminates: at most 3 attempts on each of the first two
\* providers and exactly 1 on the scrape fallback, so at most 7 in all; while
\* it waits or sleeps its next step is enabled; and when every attempt has
\* ended without a usable payload it returns None.
C6_BoundedAttempts ==
    /\ Len(hist) <= 7
    /\ Cardinality(AttemptsOn("SyricsLyricsProvider")) <= 3
    /\ Cardinality(AttemptsOn("LRCLibLyricsProvider")) <= 3
    /\ Cardinality(AttemptsOn("UtaNetLyricsProvider")) <= 1
    /\ pc \in {"wait", "sleep"} => ENABLED (Receive \/ Timeout \/ Wake)
    /\ (pc = "done" /\ \A i \in DOMAIN hist : ~hist[i].usable) =>
           /\ result = NoneV
           /\ Len(hist) = 7
           /\ Cardinality(AttemptsOn("UtaNetLyricsProvider")) = 1

\* C6 witness: all seven attempts were made and get_lyrics returned None.
C6_Witness ==
    /\ pc = "done"
    /\ Len(hist) = 7
    /\ \A i \in DOMAIN hist : hist[i].seen \in {"timeout", "result"} /\ ~hist[i].usable
    /\ result = NoneV


-----------------------------------------------------------------------------
(* Claims about LyricsManager *)

SeqSet(q) == {q[i] : i \in DOMAIN q}

TimeOf(line) == PyInt(line.startTimeMs)

\* translate_lyrics has just put a new id into a cache that held exactly
\* max_cache_size entries
InsertedIntoFull ==
    /\ lastOp.op = "translate_lyrics"
    /\ Len(lastOp.before) = MaxCacheSize
    /\ lastOp.id \notin SeqSet(lastOp.before)

\* C7: whatever LyricsManager operations have run, the cache holds at most
\* max_cache_size entries.
C7_CacheBounded == Len(cache) <= MaxCacheSize

\* C8: when translate_lyrics inserts a new id into a cache holding exactly
\* max_cache_size entries, max_cache_size entries remain, the only entry gone
\* is the one inserted earliest, and the only entry gained is the new one,
\* whichever entry was read last.
C8_FifoEviction ==
    InsertedIntoFull =>
        /\ Len(cache) = MaxCacheSize
        /\ SeqSet(lastOp.before) \ KeySet(cache) = {Head(lastOp.before)}
        /\ KeySet(cache) \ SeqSet(lastOp.before) = {lastOp.id}

\* C8 witness: the entry evicted is the one a read found most recently, and
\* an entry inserted after it stays
C8_Witness ==
    /\ InsertedIntoFull
    /\ Len(lastOp.before) >= 2
    /\ lastOp.read = Head(lastOp.before)
    /\ lastOp.read \notin KeySet(cache)
    /\ lastOp.before[2] \in KeySet(cache)

\* two lists of lines agree in length, words and translated text
SameLines(a, b) ==
    /\ Len(a) = Len(b)
    /\ \A i \in DOMAIN a : a[i].words = b[i].words /\ a[i].translated = b[i].translated

\* C9: while the entry translate_lyrics stored for an id is still held,
\* get_cached_lyrics for that id returns as many lines as translate_lyrics
\* returned, with the same words and translated text; and a read directly
\* after a read of the same id returns the same result.
C9_RoundTrip ==
    /\ [](lastOp.op = "get_cached_lyrics" /\ lastTr[lastOp.id] # NoneV =>
             /\ lastOp.ret # NoneV
             /\ SameLines(lastOp.ret.lyrics, lastTr[lastOp.id].lines))
    /\ [][(/\ lastOp.op = "get_cached_lyrics"
           /\ lastOp'.op = "get_cached_lyrics"
           /\ lastOp'.id = lastOp.id) => lastOp'.ret = lastOp.ret]_vars

\* C9 witness: a read of an entry with several lines, one of them translated,
\* stored by translate_lyrics while another entry sits before it in the cache
C9_Witness ==
    /\ lastOp.op = "get_cached_lyrics"
    /\ lastTr[lastOp.id] # NoneV
    /\ Len(lastTr[lastOp.id].lines) >= 2
    /\ \E i \in DOMAIN lastOp.ret.lyrics :
           lastOp.ret.lyrics[i].translated # lastOp.ret.lyrics[i].words
    /\ cache[1].id # lastOp.id

\* C10: the list translate_lyrics returns has one line per input line; it is
\* the input reordered ascending by start time with ties in input order, each
\* line keeping its startTimeMs and words; the words went to the client in
\* that order, and line i carries the client's i-th output (the words
\* themselves when the client raised).
C10_OnePerLineInOrder ==
    lastOp.op = "translate_lyrics" =>
        LET data == lastOp.data
            ret == lastOp.ret
            n == Len(lastOp.data)
        IN /\ Len(ret) = n
           /\ \E pi \in Permutations(1..n) :
                 /\ \A i \in 1..n :
                       /\ ret[i].startTimeMs = data[pi[i]].startTimeMs
                       /\ ret[i].words = data[pi[i]].words
                 /\ \A i, j \in 1..n :
                       i < j => /\ TimeOf(ret[i]) <= TimeOf(ret[j])
                                /\ TimeOf(ret[i]) = TimeOf(ret[j]) => pi[i] < pi[j]
           /\ lastOp.sent = [i \in 1..n |-> ret[i].words]
           /\ lastOp.out.kind = "ok" =>
                 /\ Len(lastOp.out.lines) = n
                 /\ \A i \in 1..n : ret[i].translated = lastOp.out.lines[i]
           /\ lastOp.out.kind = "raise" =>
                 \A i \in 1..n : ret[i].translated = ret[i].words

\* C10 witness: the input is out of order and has two lines with the same
\* start time and different words, and the client translated a line
C10_Witness ==
    /\ lastOp.op = "translate_lyrics"
    /\ \E i, j \in DOMAIN lastOp.data :
          i < j /\ TimeOf(lastOp.data[i]) > TimeOf(lastOp.data[j])
    /\ \E i, j \in DOMAIN lastOp.data :
          /\ i < j
          /\ TimeOf(lastOp.data[i]) = TimeOf(lastOp.data[j])
          /\ lastOp.data[i].words # lastOp.data[j].words
    /\ lastOp.out.kind = "ok"
    /\ \E i \in DOMAIN lastOp.ret : lastOp.ret[i].translated # lastOp.ret[i].words


\* C11: when the translation client raises during translate_lyrics, no
\* exception leaves the method, it returns one line per input line with
\* translated equal to the line's words, and the callback is called with
\* that list.
C11_ClientErrorFallsBack ==
    (lastOp.op = "translate_lyrics" /\ lastOp.out.kind = "raise") =>
        /\ ~lastOp.raised
        /\ Len(lastOp.ret) = Len(lastOp.data)
        /\ \A i \in DOMAIN lastOp.ret : lastOp.ret[i].translated = lastOp.ret[i].words
        /\ {lastOp.ret[i].words : i \in DOMAIN lastOp.ret}
              = {lastOp.data[i].words : i \in DOMAIN lastOp.data}
        /\ lastOp.callback = lastOp.ret

\* C11 witness: the client raised on a list of several lines with different words
C11_Witness ==
    /\ lastOp.op = "translate_lyrics"
    /\ lastOp.out.kind = "raise"
    /\ lastOp.out.exc = "ValueError"
    /\ ~lastOp.raised
    /\ \E i, j \in DOMAIN lastOp.ret : lastOp.ret[i].words # lastOp.ret[j].words
    /\ lastOp.callback = lastOp.ret


\* C12: when translate_lines returns, its result has exactly as many
\* elements as the lines it was given: element i is the i-th line the backend
\* produced, or the i-th input line where the backend produced fewer, and
\* lines produced beyond the input's length are left out.
C12_OneResultPerLine ==
    (lastOp.op = "translate_lyrics" /\ lastOp.out.kind = "ok") =>
        /\ Len(lastOp.out.lines) = Len(lastOp.sent)
        /\ \A i \in DOMAIN lastOp.sent :
              lastOp.out.lines[i] = IF i <= Len(lastOp.out.raw)
                                    THEN lastOp.out.raw[i] ELSE lastOp.sent[i]

\* C12 witness: the backend produced fewer lines than it was given
C12_Witness ==
    /\ lastOp.op = "translate_lyrics"
    /\ lastOp.out.kind = "ok"
    /\ Len(lastOp.sent) = MaxLines
    /\ Len(lastOp.out.raw) < Len(lastOp.sent)
    /\ lastOp.out.lines[MaxLines] = lastOp.sent[MaxLines]
    /\ lastOp.out.lines[1] # lastOp.sent[1]

\* a state where the backend produced more lines than it was given
C12_TruncatedReached ==
    /\ lastOp.op = "translate_lyrics"
    /\ lastOp.out.kind = "ok"
    /\ Len(lastOp.out.raw) > Len(lastOp.sent)


-----------------------------------------------------------------------------
(* Claims about merge_translations_into_current *)

\* the translated line t is for the line c: same words, same time
SameLine(c, t) ==
    /\ c.words = t.words
    /\ PyIntOk(c.startTimeMs) /\ PyIntOk(t.startTimeMs)
    /\ PyInt(c.startTimeMs) = PyInt(t.startTimeMs)

\* C13: after a merge, every line on display for which the translated list
\* has a line with the same words and a startTimeMs denoting the same time
\* (int or decimal string on either side) carries the translated text of
\* such a line.
C13_MatchesAcrossTypes ==
    lastMerge.op = "merge" =>
        \A i \in DOMAIN current_lyrics :
            LET from == {j \in DOMAIN lastMerge.translated :
                            SameLine(lastMerge.before[i], lastMerge.translated[j])}
            IN from # {} =>
                  current_lyrics[i].translated \in {lastMerge.translated[j].translated : j \in from}


\* C14: a merge leaves the number and order of the lines on display and
\* every line's startTimeMs and words as they were; a line for which the
\* translated list has no line of the same words and time keeps its
\* translated text.
C14_MergeFrame ==
    lastMerge.op = "merge" =>
        /\ Len(current_lyrics) = Len(lastMerge.before)
        /\ \A i \in DOMAIN lastMerge.before :
              /\ current_lyrics[i].startTimeMs = lastMerge.before[i].startTimeMs
              /\ current_lyrics[i].words = lastMerge.before[i].words
              /\ (\A j \in DOMAIN lastMerge.translated :
                      ~SameLine(lastMerge.before[i], lastMerge.translated[j]))
                    => current_lyrics[i].translated = lastMerge.before[i].translated

\* C14 witness: one line on display took a translation, another matched
\* nothing and kept its text, and a translated line matched no line on display
C14_Witness ==
    /\ lastMerge.op = "merge"
    /\ \E i \in DOMAIN current_lyrics :
          current_lyrics[i].translated # lastMerge.before[i].translated
    /\ \E i \in DOMAIN current_lyrics :
          /\ current_lyrics[i].translated = lastMerge.before[i].translated
          /\ \A j \in DOMAIN lastMerge.translated :
                ~SameLine(lastMerge.before[i], lastMerge.translated[j])
    /\ \E j \in DOMAIN lastMerge.translated :
          \A i \in DOMAIN lastMerge.before :
              ~SameLine(lastMerge.before[i], lastMerge.translated[j])


-----------------------------------------------------------------------------
(* Claims about the track transition in app.py *)

IsPrefix(a, b) == Len(a) <= Len(b) /\ a = SubSeq(b, 1, Len(a))

\* the two paths of the track-transition state machine
StatedPaths ==
    { <<"Checking-Cache", "Render-Cached", "Idle">>,
      <<"Checking-Cache", "Fetching", "Translating", "Render-Fresh", "Idle">> }

\* and the path of a fetch that finds no lyrics
TransitionPaths == StatedPaths \cup { <<"Checking-Cache", "Fetching", "Idle">> }

\* the phases of every transition started so far and not forgotten
Flows == {flow, doneFlow} \cup {threads[i].flow : i \in DOMAIN threads}

C16_RefreshFetches ==
    (ul.refresh /\ Len(flow) >= 2) => flow[2] = "Fetching"

\* C17: the cache mapping and the cache file are changed by the UI thread only.
C17_SingleWriter == cacheWriter \in {"none", "ui"}

\* C18: UI-visible state (status text, titles, the lines on display) is
\* changed by the UI thread only.
C18_UiThreadOnly == lastUi \in {"none", "ui"}

-----------------------------------------------------------------------------
(* Claims about the order of lines *)

SortedByStart(lines) ==
    \A i, j \in DOMAIN lines : i < j => lines[i].start_time_ms <= lines[j].start_time_ms

StartOf(line) == PyInt(line.startTimeMs)

\* sorted is stored in ascending order of time, lines of equal time in the
\* order they have in stored
StableSortOf(sorted, stored) ==
    /\ Len(sorted) = Len(stored)
    /\ \E p \in [DOMAIN stored -> DOMAIN stored] :
          /\ \A i \in DOMAIN sorted : sorted[i] = stored[p[i]]
          /\ \A i, j \in DOMAIN sorted : i < j =>
                \/ StartOf(sorted[i]) < StartOf(sorted[j])
                \/ StartOf(sorted[i]) = StartOf(sorted[j]) /\ p[i] < p[j]

C20_DictWitness ==
    /\ lastOp.op = "get_cached_lyrics"
    /\ lastOp.stored # NoneV
    /\ lastOp.stored.shape = "dict"
    /\ lastOp.ret.lyrics # lastOp.stored.lyrics
    /\ \A i \in DOMAIN lastOp.stored.lyrics : PyIntOk(lastOp.stored.lyrics[i].startTimeMs)

-----------------------------------------------------------------------------
(* Claims about what writes and clears cache entries *)

\* C21: a translate_lyrics pass in which the translation client raised
\* does not create an entry for the track.
C21_FailedPassWritesNothing ==
    (/\ lastOp.op = "translate_lyrics"
     /\ lastOp.out.kind = "raise"
     /\ lastOp.id \notin SeqSet(lastOp.before))
    => lastOp.id \notin KeySet(cache)

\* C22: clear_cache(id) leaves the cache without the entry of that id and
\* with every other entry as it was, in the same order; clear_cache() leaves
\* it empty; and the resulting mapping is what save_cache writes to the
\* cache file.
C22_ClearFrame ==
    [][lastOp'.op = "clear_cache" =>
          LET id == lastOp'.id
          IN /\ cache' = IF id # 0 THEN SelectSeq(cache, LAMBDA e : e.id # id) ELSE <<>>
             /\ fs = "ok" => disk' = cache']_vars

\* C22 witness: clear_cache(id) removed the older of two entries
C22_Witness ==
    /\ lastOp.op = "clear_cache"
    /\ lastOp.id # 0
    /\ Len(lastOp.before) = 2
    /\ lastOp.before[1] = lastOp.id
    /\ Keys(cache) = <<lastOp.before[2]>>
    /\ disk = cache

\* clear_cache() emptied a cache that held entries
C22_ClearAllReached ==
    /\ lastOp.op = "clear_cache"
    /\ lastOp.id = 0
    /\ Len(lastOp.before) = 2
    /\ cache = <<>>

-----------------------------------------------------------------------------
(* Claims about cache file failures *)

\* C24: after construction with a cache file that cannot be opened or
\* unpickled the cache is empty; and when the write of the cache file fails
\* during translate_lyrics or clear_cache, no exception leaves the operation
\* and the cache in memory is updated: it holds the entry translate_lyrics
\* built, or no longer holds what clear_cache removed.
C24_FileFailuresSwallowed ==
    /\ (lastOp.op = "init" /\ (fs = "noaccess" \/ disk = Corrupt)) => cache = <<>>
    /\ (lastOp.op = "translate_lyrics" /\ fs # "ok") =>
          /\ ~lastOp.raised
          /\ lastOp.id \in KeySet(cache)
          /\ DictGet(cache, lastOp.id).lyrics = lastOp.ret
          /\ lastOp.callback = lastOp.ret
    /\ (lastOp.op = "clear_cache" /\ fs # "ok") =>
          /\ ~lastOp.raised
          /\ IF lastOp.id # 0 THEN lastOp.id \notin KeySet(cache) ELSE cache = <<>>

\* C24 witness: translate_lyrics stored an entry in memory although the write
\* failed and left the file truncated
C24_Witness ==
    /\ lastOp.op = "translate_lyrics"
    /\ fs = "full"
    /\ disk = Corrupt
    /\ lastOp.id \in KeySet(cache)
    /\ Len(lastOp.ret) >= 2

\* clear_cache removed an entry in memory although the file could not be opened
C24_ClearReached ==
    /\ lastOp.op = "clear_cache"
    /\ fs = "noaccess"
    /\ lastOp.id # 0
    /\ lastOp.id \in SeqSet(lastOp.before)
    /\ disk # cache

\* a file that cannot be unpickled was loaded as an empty cache
C24_CorruptLoadReached == lastOp.op = "init" /\ disk = Corrupt /\ fs = "ok" /\ cache = <<>>

-----------------------------------------------------------------------------
(* Claims about entries in the old shape *)

\* a and b hold the same lines, each as often
SameLinesAnyOrder(a, b) ==
    /\ Len(a) = Len(b)
    /\ \E p \in [DOMAIN a -> DOMAIN b] :
          /\ \A i, j \in DOMAIN a : i # j => p[i] # p[j]
          /\ \A i \in DOMAIN a : a[i] = b[p[i]]

\* what get_cached_lyrics makes of a bare list: its lines, "Unknown" sources,
\* synced, no titles
LegacyEntryOf(ret, stored) ==
    /\ ret # NoneV
    /\ SameLinesAnyOrder(ret.lyrics, stored.lyrics)
    /\ ret.lyrics_source = "Unknown"
    /\ ret.translation_source = "Unknown"
    /\ ret.synced = TRUE
    /\ ret.original_title = NoneV
    /\ ret.translated_title = NoneV

-----------------------------------------------------------------------------
(* Claims about the providers' parsing *)

\* the texts _plain_to_synthetic makes lines of: the non-blank raw lines for
\* the community database, the words for the scrape provider
SyntheticTexts(call) ==
    IF call.fn = "LRCLib._plain_to_synthetic"
    THEN SelectSeq(call.text, LAMBDA ln : ln # <<>>)
    ELSE [i \in DOMAIN Flatten(call.text) |-> <<Flatten(call.text)[i]>>]

\* C25: with n texts and duration d, _plain_to_synthetic of either provider
\* returns n lines, line i (from 0) with the i-th text and start time
\* i * spacing, where spacing is max(1000, d div (n + 1)) if d > 0 and 3000
\* otherwise.
C25_SyntheticTimes ==
    lastCall.fn \in {"LRCLib._plain_to_synthetic", "UtaNet._plain_to_synthetic"} =>
        LET texts == SyntheticTexts(lastCall)
            n == Len(texts)
            d == lastCall.duration_ms
            spacing == IF d > 0
                       THEN (IF d \div (n + 1) > 1000 THEN d \div (n + 1) ELSE 1000)
                       ELSE 3000
        IN /\ Len(lastCall.ret) = n
           /\ \A k \in 1..n :
                 /\ lastCall.ret[k].start_time_ms = (k - 1) * spacing
                 /\ lastCall.ret[k].words = texts[k]

\* C25 witness: 5 lines and 30000 ms give the start times 0, 5000, 10000,
\* 15000, 20000 in the community-database provider
C25_Witness ==
    /\ lastCall.fn = "LRCLib._plain_to_synthetic"
    /\ lastCall.duration_ms = 30000
    /\ Len(lastCall.ret) = 5
    /\ [k \in 1..5 |-> lastCall.ret[k].start_time_ms] = <<0, 5000, 10000, 15000, 20000>>

\* the scrape provider made one line per word with the floor spacing
C25_ScrapeReached ==
    /\ lastCall.fn = "UtaNet._plain_to_synthetic"
    /\ lastCall.duration_ms = 2500
    /\ Len(lastCall.text) = 1
    /\ Len(lastCall.ret) = 2
    /\ [k \in 1..2 |-> lastCall.ret[k].start_time_ms] = <<0, 1000>>

\* the places of the time tags in a synced text: <<raw line, item>>
TagPlaces(text) ==
    {<<l, k>> \in (DOMAIN text) \X (1..5) :
        k \in DOMAIN text[l] /\ text[l][k].kind = "tag"}

\* the start time the tag at a place stands for
PlaceStart(text, pl) ==
    LET m == text[pl[1]][pl[2]]
    IN (m.mm * 60 + m.ss) * 1000 + (IF m.cc = -1 THEN 0 ELSE 10 * m.cc)

\* place a comes before place b in the text
PlaceBefore(a, b) == a[1] < b[1] \/ (a[1] = b[1] /\ a[2] < b[2])

\* the position of a place's line in the result: after the lines of every
\* earlier time and of every equal time found earlier in the text
PlaceRank(text, pl) ==
    1 + Cardinality({q \in TagPlaces(text) :
                        \/ PlaceStart(text, q) < PlaceStart(text, pl)
                        \/ PlaceStart(text, q) = PlaceStart(text, pl) /\ PlaceBefore(q, pl)})

\* C26: _parse_lrc returns one line per time tag of the text, with start
\* (mm*60+ss)*1000 + cc*10 (cc = 0 when absent) and the text of the tag's raw
\* line without its tags, stripped; raw lines without a tag give nothing; the
\* lines are in ascending order of start, equal starts in the order found.
C26_ParseLrc ==
    lastCall.fn = "LRCLib._parse_lrc" =>
        /\ Len(lastCall.ret) = Cardinality(TagPlaces(lastCall.text))
        /\ \A pl \in TagPlaces(lastCall.text) :
              lastCall.ret[PlaceRank(lastCall.text, pl)] =
                  [start_time_ms |-> PlaceStart(lastCall.text, pl),
                   words |-> Strip(SelectSeq(lastCall.text[pl[1]], LAMBDA it : it.kind = "char"))]

\* C26 witness: a raw line with two tags gave two lines, a raw line without a
\* tag gave none, and two equal starts are in the order found
C26_Witness ==
    /\ lastCall.fn = "LRCLib._parse_lrc"
    /\ lastCall.text = << <<LrcTag(0, 0, 50), LrcTag(1, 0, -1), LrcChar(" "), LrcChar("b"), LrcChar(" ")>>,
                          <<LrcTag(0, 1, 0), LrcChar("a"), LrcChar(" "), LrcChar("b")>>,
                          <<LrcTag(0, 1, -1), LrcChar("a")>> >>
    /\ lastCall.ret = << [start_time_ms |-> 500, words |-> <<LrcChar("b")>>],
                         [start_time_ms |-> 1000, words |-> <<LrcChar("a"), LrcChar(" "), LrcChar("b")>>],
                         [start_time_ms |-> 1000, words |-> <<LrcChar("a")>>],
                         [start_time_ms |-> 60000, words |-> <<LrcChar("b")>>] >>

\* C27: the community-database provider returns a payload of the synced
\* text's lines with synced true when the synced text yields a line, else a
\* payload of the plain text's lines with synced false when that yields a
\* line, else None.
C27_PrefersSynced ==
    \A i \in DOMAIN pool :
        (/\ pool[i].st = "done"
         /\ Providers[pool[i].prov] = "LRCLibLyricsProvider"
         /\ pool[i].src.kind = "ok")
        => IF pool[i].src.synced # <<>>
           THEN /\ pool[i].out.kind = "payload"
                /\ pool[i].out.lines = ParseLrc(pool[i].src.synced)
                /\ pool[i].out.synced
           ELSE IF pool[i].src.plain # <<>>
           THEN /\ pool[i].out.kind = "payload"
                /\ pool[i].out.lines = pool[i].src.plain
                /\ ~pool[i].out.synced
           ELSE pool[i].out = NoneV

\* C28: no call of the scrape-fallback provider's get_lyrics ends with an
\* exception.
C28_ScrapeNeverRaises ==
    \A i \in DOMAIN pool :
        (pool[i].st = "done" /\ Providers[pool[i].prov] = "UtaNetLyricsProvider")
        => pool[i].out.kind # "raise"

-----------------------------------------------------------------------------
(* Claims about the source tag *)

\* the tags the providers give their payloads
ProviderTags == {"Spotify", "LRCLib", "Uta-Net"}

\* C29: the lyrics_source of every entry translate_lyrics wrote for lyrics
\* the acquisition service returned is the tag of a provider.
C29_SourceRecorded ==
    \A i \in DOMAIN cache :
        lastTr[cache[i].id] # NoneV => cache[i].val.lyrics_source \in ProviderTags

-----------------------------------------------------------------------------
(* Claims about the translation clients *)

\* C30: when the API fails on some lines, the Google client's
\* translate_lines does not raise, and its result holds at exactly those
\* positions the original line and at every other position the translation.
C30_PerLineFallback ==
    lastCall.fn = "Google.translate_lines" =>
        /\ lastCall.ret.kind = "ok"
        /\ Len(lastCall.ret.lines) = Len(lastCall.lines)
        /\ \A i \in DOMAIN lastCall.lines :
              lastCall.ret.lines[i] = IF i \in lastCall.err THEN lastCall.lines[i]
                                      ELSE Tr(lastCall.lines[i])

\* C30 witness: the API failed on the second of three lines only
C30_Witness ==
    /\ lastCall.fn = "Google.translate_lines"
    /\ Len(lastCall.lines) = 3
    /\ lastCall.err = {2}
    /\ lastCall.ret.kind = "ok"
    /\ lastCall.ret.lines[2] = lastCall.lines[2]
    /\ lastCall.ret.lines[1] # lastCall.lines[1]
    /\ lastCall.ret.lines[3] # lastCall.lines[3]

\* C31: a missing LLM API key is no error at construction: the client is
\* created and installed with the empty key, and the not-configured error is
\* raised only by an invoked translate_lines, with no request made.
C31_MissingKeyRaisesOnUse ==
    (lastCall.fn = "OpenRouter.translate_lines" /\ KeyStrip(lastCall.api_key) = <<>>) =>
        /\ lastCall.made = "ok"
        /\ lastCall.client.client = "openrouter"
        /\ lastCall.client.api_key = <<>>
        /\ lastCall.requests = 0
        /\ lastCall.ret = IF lastCall.invoked THEN Raise("ValueError") ELSE NoneV

\* C31 witness: a client built from a blank key had translate_lines invoked
\* and raised the error without a request
C31_Witness ==
    /\ lastCall.fn = "OpenRouter.translate_lines"
    /\ lastCall.api_key = <<" ">>
    /\ lastCall.made = "ok"
    /\ lastCall.invoked
    /\ Len(lastCall.lines) = 2
    /\ lastCall.ret = Raise("ValueError")
    /\ lastCall.requests = 0

\* C31 witness: with a key the request is made
C31_KeyedReached ==
    /\ lastCall.fn = "OpenRouter.translate_lines"
    /\ lastCall.invoked
    /\ lastCall.requests = 1
    /\ lastCall.ret.kind = "ok"

-----------------------------------------------------------------------------
(* Claims about the callback of translate_lyrics *)

\* the ids held after the store under lastOp.id and the size check, given the
\* ids held at the start of the call
C32_KeysAfter ==
    LET stored == IF \E k \in DOMAIN lastOp.start : lastOp.start[k] = lastOp.id
                  THEN lastOp.start ELSE Append(lastOp.start, lastOp.id)
    IN IF Len(stored) > MaxCacheSize THEN Tail(stored) ELSE stored

\* C32: a translate_lyrics call with a callback invokes it exactly once,
\* with the list the method returns, and the callback finds the cache as the
\* store of the new entry under the id (in place of any prior one), then the
\* size check with its eviction, then save_cache left it; from a cache
\* within its bound that is: the entry held, the bound met, the file
\* holding the cache.
C32_CallbackAfterStore ==
    lastOp.op = "translate_lyrics" =>
        /\ ~lastOp.raised
        /\ Len(lastOp.seen) = 1
        /\ lastOp.callback = lastOp.ret
        /\ lastOp.entry.lyrics = lastOp.ret
        /\ Keys(lastOp.seen[1].cache) = C32_KeysAfter
        /\ lastOp.id \in KeySet(lastOp.seen[1].cache) =>
              DictGet(lastOp.seen[1].cache, lastOp.id) = lastOp.entry
        /\ lastOp.seen[1].disk = lastOp.seen[1].cache
        /\ lastOp.seen[1].cache = cache
        /\ Len(lastOp.start) <= MaxCacheSize =>
              /\ lastOp.id \in KeySet(lastOp.seen[1].cache)
              /\ Len(lastOp.seen[1].cache) <= MaxCacheSize

\* C32 witness: the call replaced a prior entry of the id that held other
\* lines, in a full cache
C32_Witness ==
    /\ lastOp.op = "translate_lyrics"
    /\ lastOp.id \in {lastOp.before[i] : i \in DOMAIN lastOp.before}
    /\ Len(lastOp.before) = MaxCacheSize
    /\ lastOp.ret # <<>>
    /\ lastOp.callback = lastOp.ret
    /\ Len(lastOp.seen) = 1
    /\ DictGet(lastOp.seen[1].cache, lastOp.id).lyrics = lastOp.ret

\* C32 witness: the call added an entry to a full cache, and the callback
\* found the oldest entry evicted
C32_EvictionReached ==
    /\ lastOp.op = "translate_lyrics"
    /\ lastOp.id \notin {lastOp.before[i] : i \in DOMAIN lastOp.before}
    /\ Len(lastOp.before) = MaxCacheSize
    /\ Len(lastOp.seen) = 1
    /\ Len(lastOp.seen[1].cache) = MaxCacheSize
    /\ Head(lastOp.before) \notin KeySet(lastOp.seen[1].cache)

-----------------------------------------------------------------------------
(* Claims about the delays between attempts *)

\* the attempts of the running get_lyrics call that were followed by another
\* attempt on the same provider
RetriedAttempts ==
    {k \in DOMAIN hist : k < Len(hist) /\ hist[k + 1].prov = hist[k].prov}

\* the attempts that were the last of their provider and have been dealt with
FinalAttempts ==
    {k \in DOMAIN hist :
        /\ hist[k].att + 1 = Attempts(Providers[hist[k].prov])
        /\ (k < Len(hist) \/ pc = "done")}

\* C33 as stated: a positive delay of 150 ms separates every retry from the
\* failed attempt before it, and no delay follows a provider's final attempt.
C33_AsStated ==
    /\ \A k \in RetriedAttempts : hist[k].slept = 150
    /\ \A k \in FinalAttempts : hist[k].slept <= 0

\* C33: the first retry on a provider follows its failed attempt after a
\* sleep of 0 ms, the second after a sleep of 150 ms, and no positive delay
\* follows a provider's final attempt.
C33_RetryDelays ==
    /\ \A k \in RetriedAttempts :
          hist[k].slept = IF hist[k].att = 0 THEN 0 ELSE 150
    /\ \A k \in FinalAttempts : hist[k].slept <= 0

\* C33 witness: a provider was tried three times and the call went on to
\* the next provider
C33_Witness ==
    /\ Len(hist) >= 4
    /\ hist[1].prov = hist[3].prov
    /\ hist[1].slept = 0
    /\ hist[2].slept = 150
    /\ hist[3].slept = -1
    /\ hist[4].prov # hist[3].prov

-----------------------------------------------------------------------------
(* Claims about the candidate selection of the scrape provider *)

\* two names are equal up to case and runs of (full-width) blanks
SameArtist(a, b) ==
    LET plain(n) == SelectSeq([i \in DOMAIN n |-> Lower(n[i])], LAMBDA c : c \notin {" ", "W"})
        \* the positions of the letters before which a blank stands
        gaps(n) == {Cardinality({j \in 1..i : n[j] \notin {" ", "W"}}) :
                       i \in {k \in DOMAIN n : /\ n[k] \in {" ", "W"}
                                               /\ \E l \in 1..k : n[l] \notin {" ", "W"}
                                               /\ \E l \in k..Len(n) : n[l] \notin {" ", "W"}}}
    IN plain(a) = plain(b) /\ gaps(a) = gaps(b)

\* the candidates whose artist name equals the current artist's
C34_LocalSet ==
    {i \in DOMAIN lastCall.songs : SameArtist(lastCall.songs[i].artist_name, lastCall.artist_name)}

\* the candidates whose artist id the LLM returned
C34_AnswerSet ==
    {i \in DOMAIN lastCall.songs :
        \/ lastCall.llm.kind = "str" /\ lastCall.songs[i].artist_id = lastCall.llm.s
        \/ lastCall.llm.kind = "int" /\ lastCall.llm.v = 2 /\ lastCall.songs[i].artist_id = "2"}

\* C34: a candidate whose normalized artist name equals the current artist's
\* is selected locally without an LLM call; the LLM is called only when no
\* candidate matches locally, a candidate exists and an API key is
\* configured; the LLM answer selects lyrics only if the returned artist id
\* is a candidate's, and otherwise the provider returns None.
C34_CandidateSelection ==
    lastCall.fn = "UtaNet.get_lyrics" =>
        /\ C34_LocalSet # {} =>
              /\ lastCall.sel.chosen \in C34_LocalSet
              /\ ~lastCall.sel.called
        /\ lastCall.sel.called =>
              /\ C34_LocalSet = {}
              /\ lastCall.songs # <<>>
              /\ lastCall.api_key # <<>>
        /\ (C34_LocalSet = {} /\ lastCall.sel.chosen # 0) =>
              /\ lastCall.sel.called
              /\ lastCall.sel.chosen \in C34_AnswerSet
        /\ (C34_LocalSet = {} /\ ~(lastCall.sel.called /\ C34_AnswerSet # {})) =>
              /\ lastCall.sel.chosen = 0
              /\ lastCall.sel.ret = NoneV

\* C34 witness: the second candidate's name differs from the current
\* artist's in case and blanks only and is selected without the LLM
C34_Witness ==
    /\ lastCall.fn = "UtaNet.get_lyrics"
    /\ Len(lastCall.songs) = 2
    /\ lastCall.artist_name = <<"a", " ", "b">>
    /\ lastCall.songs[1].artist_name = <<"a", "b">>
    /\ lastCall.songs[2].artist_name = <<"A", "W", " ", "B", " ">>
    /\ lastCall.api_key # <<>>
    /\ lastCall.sel.chosen = 2
    /\ ~lastCall.sel.called

\* C34 witness: no local match, the LLM names the second candidate's id
C34_LLMSelects ==
    /\ lastCall.fn = "UtaNet.get_lyrics"
    /\ C34_LocalSet = {}
    /\ lastCall.sel.called
    /\ lastCall.llm = [kind |-> "int", v |-> 2]
    /\ lastCall.sel.chosen = 2

\* C34 witness: the LLM names an id that is no candidate's
C34_UnknownId ==
    /\ lastCall.fn = "UtaNet.get_lyrics"
    /\ lastCall.sel.called
    /\ lastCall.llm = [kind |-> "str", s |-> "9"]
    /\ lastCall.sel.ret = NoneV

-----------------------------------------------------------------------------
(* Claims about the worker pool *)

\* the abandoned provider calls that still occupy a worker
AbandonedRunning == {j \in Running : pool[j].abandoned}

\* C35: no attempt reaches its deadline while it is still waiting for a
\* worker behind abandoned, still running provider calls that occupy every
\* worker of the pool.
C35_NoStarvedTimeout ==
    \A i \in DOMAIN pool :
        (pool[i].abandoned /\ pool[i].st = "queued") =>
            Cardinality(AbandonedRunning) < PoolWorkers

-----------------------------------------------------------------------------
(* Claims about translation results that arrive late *)

\* the callback of a translation for a track other than the current one runs
StaleCallback ==
    \E i \in DOMAIN threads :
        /\ threads[i].pc = "callback"
        /\ threads' = Remove(threads, i)
        /\ current_song_id \in AppTracks \ {threads[i].song}

\* C36: a translation result for a track that is no longer the current one
\* modifies neither the current lyrics nor the displayed status.
C36_StaleResultIgnored ==
    [][StaleCallback => (current_lyrics' = current_lyrics /\ status' = status)]_vars

-----------------------------------------------------------------------------
(* Claims about merging a complete translation *)

\* the merged list is the output of translate_lyrics for the lines on
\* display: line by line the same startTimeMs and words
FullOutputMerged ==
    /\ lastMerge.op = "merge"
    /\ Len(lastMerge.translated) = Len(lastMerge.before)
    /\ \A i \in DOMAIN lastMerge.before :
          /\ lastMerge.translated[i].startTimeMs = lastMerge.before[i].startTimeMs
          /\ lastMerge.translated[i].words = lastMerge.before[i].words

\* C37: after the full output of translate_lyrics for the current lines is
\* merged, every current line carries a translation from that output, lines
\* that share their (startTimeMs, words) key with another line included.
C37_EveryLineTranslated ==
    FullOutputMerged =>
        \A i \in DOMAIN current_lyrics :
            current_lyrics[i].translated
                \in {lastMerge.translated[j].translated : j \in DOMAIN lastMerge.translated}

-----------------------------------------------------------------------------
(* Claims about title-only cache entries *)

\* update_lyrics reads the cache for a track whose entry holds no lyric line
TitleOnlyChecked ==
    /\ uipc = "check"
    /\ uipc' # "check"
    /\ ul.song \in KeySet(cache)
    /\ DictGet(cache, ul.song).shape = "dict"
    /\ DictGet(cache, ul.song).lyrics = <<>>

\* C38: a title-only entry is not taken for cached lyrics: the transition
\* to its track goes on from the cache check to Fetching.
C38_TitleOnlyIsMiss ==
    [][TitleOnlyChecked => flow' = Append(flow, "Fetching")]_vars

\* C39: update_cache_with_title on an existing entry, one stored as a bare
\* line list included, does not raise, records the original and the
\* translated title, and leaves the entry's lyric lines as they were.
C39_TitleUpdateSucceeds ==
    (lastOp.op = "update_cache_with_title" /\ lastOp.stored # NoneV) =>
        /\ ~lastOp.raised
        /\ DictGet(cache, lastOp.id).shape = "dict"
        /\ DictGet(cache, lastOp.id).title = [kind |-> "set", original |-> "T", translated |-> "Tt"]
        /\ DictGet(cache, lastOp.id).lyrics = lastOp.stored.lyrics

-----------------------------------------------------------------------------
(* Claims about the range of the synthetic times *)

\* C40: for a track of known duration (duration_ms > 0) every start time
\* _plain_to_synthetic generates is less than duration_ms, whatever the
\* number of lines.
C40_TimesWithinTrack ==
    (/\ lastCall.fn \in {"LRCLib._plain_to_synthetic", "UtaNet._plain_to_synthetic"}
     /\ lastCall.duration_ms > 0) =>
        \A k \in DOMAIN lastCall.ret : lastCall.ret[k].start_time_ms < lastCall.duration_ms

=============================================================================
